---------------------------- MODULE Spec2Model ----------------------------
(***************************************************************************)
(* recordr: the auto-record pipeline of src-tauri/src/audio.                *)
(*                                                                         *)
(*   Recorder (recorder.rs)        start/pause/resume/stop commands, the   *)
(*                                 worker thread of run_auto_record        *)
(*   AutoRecordState (auto_record.rs)  the Idle/Recording/Paused machine   *)
(*   record_sentence (stream.rs)   one sentence session: file, stream,     *)
(*                                 the two polling waits                   *)
(*   input callback (stream.rs)    carry-over buffer, chunking, VAD tag,   *)
(*                                 handle_voice/handle_silence, trimming   *)
(*   RecordingSession::drop (recording_session.rs)  teardown               *)
(*                                                                         *)
(* Time is in milliseconds.  A sample is identified by its position in the *)
(* stream the device delivered to one session; a vector of samples is a    *)
(* sequence of runs <<first, len>> of consecutive positions, so that the   *)
(* slice operations of the code (extend, drain, split_at, to_vec) are      *)
(* computed exactly while a 512-sample chunk stays one small value.        *)
(***************************************************************************)
EXTENDS Integers, Sequences, FiniteSets, TLC

(***************************************************************************)
(* Bounds of the model.                                                    *)
(***************************************************************************)
\* runs whose worker threads are alive at the same time
MaxRuns == 2
\* sentences of the list handed to start_auto_record
NumSentences == 2
\* frames one session's utterance buffer may hold before the device goes quiet
MaxFrames == 3
\* clock ticks (of one poll interval each) per behaviour
MaxTicks == 5
\* frames of the buffers write_trimmed_audio is run on alone
MaxBuffer == 5
\* "sentence started" events of one run: its sentences and the retries after pause
MaxStarts == 2
\* characters of a sentence text whose file is named alone
MaxText == 3
\* supported configuration ranges an input device lists
MaxRanges == 2
\* characters of the filename of a manual recording
MaxName == 2

(***************************************************************************)
(* Program constants.                                                      *)
(***************************************************************************)
\* handle_voice_detected: elapsed >= Duration::from_millis(200)
GraceMs == 200
\* wait_for_audio_event / handle_paused_recording: sleep(Duration::from_millis(100))
PollMs == 100
\* the rate the VAD runs at
VadRate == 16000
\* bounded(1): the signals the voice channel of a session holds
ChannelBound == 1
\* find_supported_config: the preference list
PreferredRates == <<48000, 44100, 32000, 16000, 8000>>

Runs == 1..MaxRuns
Paths == 1..NumSentences
MaxTime == MaxTicks * PollMs

Min(a, b) == IF a < b THEN a ELSE b
Max(a, b) == IF a > b THEN a ELSE b
\* usize::saturating_sub
SatSub(a, b) == IF a > b THEN a - b ELSE 0

(***************************************************************************)
(* Sample vectors: sequences of runs <<first, len>>, len > 0, adjacent     *)
(* runs merged.                                                            *)
(***************************************************************************)
RECURSIVE SLen(_)
SLen(v) == IF v = <<>> THEN 0 ELSE Head(v)[2] + SLen(Tail(v))

\* Vec::extend_from_slice / concatenation
SCat(v, w) ==
    IF v = <<>> THEN w
    ELSE IF w = <<>> THEN v
    ELSE LET a == v[Len(v)]
             b == Head(w)
         IN  IF a[1] + a[2] = b[1]
             THEN SubSeq(v, 1, Len(v) - 1) \o <<(<<a[1], a[2] + b[2]>>)>> \o Tail(w)
             ELSE v \o w

\* the first n samples: slice[..n]
RECURSIVE STake(_, _)
STake(v, n) ==
    IF n = 0 \/ v = <<>> THEN <<>>
    ELSE IF Head(v)[2] <= n
         THEN SCat(<<Head(v)>>, STake(Tail(v), n - Head(v)[2]))
         ELSE <<(<<Head(v)[1], n>>)>>

\* all but the first n samples: slice[n..], Vec::drain(..n) leaves this
RECURSIVE SDrop(_, _)
SDrop(v, n) ==
    IF n = 0 \/ v = <<>> THEN v
    ELSE IF Head(v)[2] <= n
         THEN SDrop(Tail(v), n - Head(v)[2])
         ELSE <<(<<Head(v)[1] + n, Head(v)[2] - n>>)>> \o Tail(v)

\* the samples at positions first .. first+n-1 of the delivered stream
Interval(first, n) == IF n = 0 THEN <<>> ELSE <<(<<first, n>>)>>

\* the samples of a sequence of frames, in order
RECURSIVE Flatten(_)
Flatten(chunks) ==
    IF chunks = <<>> THEN <<>>
    ELSE SCat(Head(chunks).chunk, Flatten(Tail(chunks)))

(***************************************************************************)
(* stream.rs: frame sizing.                                                *)
(***************************************************************************)
\* a frame size rounded down to a multiple of 256
get_chunk_size_rounds_down(sample_rate) ==
    LET chunk_size == (sample_rate * 8 + 125) \div 250
    IN  (chunk_size \div 256) * 256

\* (sample_rate as f32 / 31.25).round(), then up to the next multiple of 256
get_chunk_size(sample_rate) ==
    LET chunk_size == (sample_rate * 8 + 125) \div 250
    IN  ((chunk_size + 255) \div 256) * 256

\* process_audio_chunk: (chunk_size as f64 / converter.ratio()).ceil(),
\* ratio = 16000 / original_sample_rate
adjusted_chunk_size(sample_rate) ==
    (get_chunk_size(sample_rate) * sample_rate + VadRate - 1) \div VadRate

\* write_trimmed_audio: (silence_padding.as_secs_f32() * sample_rate as f32) as usize
padding_samples(silence_padding, sample_rate) ==
    (silence_padding * sample_rate) \div 1000

\* the frames of padding: padding_samples / chunk_size
PaddingFrames(silence_padding, sample_rate) ==
    padding_samples(silence_padding, sample_rate) \div get_chunk_size(sample_rate)

(***************************************************************************)
(* stream.rs: write_trimmed_audio, as the sequence of frames it hands to   *)
(* the writer for a tagged buffer `chunks` and P frames of padding.        *)
(***************************************************************************)
VoiceIdx(chunks) == {i \in 1..Len(chunks) : chunks[i].is_voice}

\* start_index without the step back by one frame
start_index_at_voice(chunks) ==
    LET V == VoiceIdx(chunks)
    IN  IF V = {} THEN 0 ELSE (CHOOSE i \in V : \A j \in V : i <= j) - 1

\* chunks.iter().position(is_voice).unwrap_or(0).saturating_sub(1), 0-based
start_index(chunks) ==
    LET V == VoiceIdx(chunks)
        pos == IF V = {} THEN 0 ELSE (CHOOSE i \in V : \A j \in V : i <= j) - 1
    IN  SatSub(pos, 1)

\* rposition(is_voice).map(|i| (i + 1).min(len - 1)).unwrap_or(len.saturating_sub(1))
end_index(chunks) ==
    LET V == VoiceIdx(chunks)
    IN  IF V = {} THEN SatSub(Len(chunks), 1)
        ELSE Min((CHOOSE i \in V : \A j \in V : i >= j) - 1 + 1, Len(chunks) - 1)

\* &chunks[a..b] with 0-based a, b (b exclusive)
Slice(chunks, a, b) == SubSeq(chunks, a + 1, b)

\* a guard that lets every buffer through
RangeInvalid_never(chunks) == FALSE

\* start_index >= chunks.len() || end_index >= chunks.len() || start_index > end_index
RangeInvalid(chunks) ==
    \/ start_index(chunks) >= Len(chunks)
    \/ end_index(chunks) >= Len(chunks)
    \/ start_index(chunks) > end_index(chunks)

\* &chunks[a..b] panics when a > b or b > len
SlicePanics(n, a, b) == a > b \/ b > n

\* whether write_trimmed_audio panics on one of its three slices
write_trimmed_audio_panics(chunks, P) ==
    LET s == start_index(chunks)
        e == end_index(chunks)
        n == Len(chunks)
    IN  /\ ~RangeInvalid(chunks)
        /\ \/ SlicePanics(n, SatSub(s, P), s)
           \/ SlicePanics(n, s, e + 1)
           \/ SlicePanics(n, e + 1, Min(e + 1 + P, n))

\* a trim whose padding after speech starts at end_index, not after it
write_trimmed_audio_repeats_end(chunks, P) ==
    LET s == start_index(chunks)
        e == end_index(chunks)
        n == Len(chunks)
    IN  IF RangeInvalid(chunks) THEN <<>>
        ELSE Slice(chunks, SatSub(s, P), s)
             \o Slice(chunks, s, e + 1)
             \o Slice(chunks, e, Min(e + P, n))

write_trimmed_audio(chunks, P) ==
    LET s == start_index(chunks)
        e == end_index(chunks)
        n == Len(chunks)
    IN  IF RangeInvalid(chunks) THEN <<>>
        ELSE Slice(chunks, SatSub(s, P), s)
             \o Slice(chunks, s, e + 1)
             \o Slice(chunks, e + 1, Min(e + 1 + P, n))


(***************************************************************************)
(* State.                                                                  *)
(***************************************************************************)
VARIABLES
    now,                    \* the clock, ms (Instant::now())
    auto_record_state,      \* Recorder.auto_record_state: 0 (None) or the run it names
    state,                  \* AutoRecordState.state, per run
    current_sentence_index, \* AutoRecordState.current_sentence_index, per run
    is_speaking,            \* AutoRecordState.is_speaking, per run
    last_active_time,       \* AutoRecordState.last_active_time, per run
    config,                 \* silence_duration, silence_padding, sample_rate, per run
    worker,                 \* the run_auto_record thread of each run: where it is
    session,                \* the RecordingSession of each run's worker and what
                            \* record_sentence shares with its input callback
    files,                  \* the project directory: path -> the WAV file there
    ret,                    \* what the last command returned to its caller
    events,                 \* what the worker of each run has emitted on the window
    sentences,              \* AutoRecordState.sentences, per run
    naming,                 \* the file naming of one sentence taken alone: its
                            \* text, the paths made from it (SpecPath)
    negotiation,            \* create_audio_config taken alone: the input device,
                            \* the rate negotiated, its chunk size (SpecConfig)
    manual,                 \* the manual recording: Recorder.writer, the
                            \* RECORDING_STREAM, the files opened (SpecManual)
    unobserved,             \* not state of the program: per run, the frames its
                            \* callback processed in a row while the
                            \* RecordingState was not Recording (SpecCancel)
    sync,                   \* the mutexes of a run and the threads that take
                            \* them: who holds each, what each thread has
                            \* still to do of its routine (SpecLocks)
    trim                    \* write_trimmed_audio taken alone: its arguments and
                            \* what it wrote (SpecTrim)

vars == <<now, auto_record_state, state, current_sentence_index, is_speaking,
          last_active_time, config, worker, session, files, ret, events,
          sentences, naming,
                   negotiation, manual, unobserved, sync, trim>>

NoConfig == [sentences |-> 0, silence_duration |-> 0, silence_padding |-> 0,
             sample_rate |-> 0]

\* no record_sentence call in progress
NoSession ==
    [stream |-> "none", writer |-> FALSE, flushed |-> FALSE, path |-> 0,
     audio_chunks |-> <<>>, data_buffer |-> <<>>, delivered |-> 0, voice_rx |-> 0]

NoFile == [exists |-> FALSE, data |-> <<>>]

\* no path: None, or the empty string unwrap_or_default() makes of it
NoPath == [dir |-> <<>>, name |-> <<>>]

NoNaming == [text |-> <<>>, project_dir |-> <<>>, audio_file_path |-> NoPath,
             created |-> NoPath, emitted |-> NoPath, stage |-> "none"]

\* no input device looked at yet
NoDevice == [present |-> FALSE, supported |-> "Err", ranges |-> <<>>]
NoNegotiation == [device |-> NoDevice, stage |-> "none", result |-> "none",
                  sample_rate |-> 0, chunk_size |-> 0]

\* Recorder::new(): no writer (a writer is known by the name of its file, no
\* file has the empty name); no stream in RECORDING_STREAM; nothing opened
NoWriter == <<>>
NoManual == [writer |-> NoWriter, stream |-> "None", opened |-> {}]

\* the mutexes: the Recorder (main.rs), the AutoRecordState and its two
\* fields (auto_record.rs), the callback's carry-over buffer, the utterance
\* buffer and the WAV writer (stream.rs)
Locks == {"recorder", "state", "is_speaking", "last_active_time", "data_buffer",
          "audio_chunks", "writer"}
\* the threads: the device's callback thread, the worker of the run, the
\* thread commands are called on
Threads == {"callback", "worker", "command"}

\* every mutex free, no thread inside a routine
NoSync == [held |-> [l \in Locks |-> "free"], todo |-> [t \in Threads |-> <<>>]]

NoTrim == [chunks |-> <<>>, silence_padding |-> 0, sample_rate |-> 0,
           called |-> FALSE, panicked |-> FALSE, written |-> <<>>]

\* prepare_recording: the path of sentence i (0-based) of run r's list, named
\* by its text
SentencePath(r, i) == sentences[r][i + 1].text

Init ==
    /\ now = 0
    /\ auto_record_state = 0
    /\ state = [r \in Runs |-> "Idle"]
    /\ current_sentence_index = [r \in Runs |-> 0]
    /\ is_speaking = [r \in Runs |-> FALSE]
    /\ last_active_time = [r \in Runs |-> 0]
    /\ config = [r \in Runs |-> NoConfig]
    /\ worker = [r \in Runs |-> [pc |-> "none", result |-> "none"]]
    /\ session = [r \in Runs |-> NoSession]
    /\ files = [p \in Paths |-> NoFile]
    /\ ret = "none"
    /\ events = [r \in Runs |-> <<>>]
    /\ sentences = [r \in Runs |-> <<>>]
    /\ naming = NoNaming
    /\ negotiation = NoNegotiation
    /\ manual = NoManual
    /\ unobserved = [r \in Runs |-> 0]
    /\ sync = NoSync
    /\ trim = NoTrim

(***************************************************************************)
(* auto_record.rs: the transition methods of AutoRecordState, as the pair  *)
(* <<state after, result>> for the state before.                           *)
(***************************************************************************)
start_recording(s) ==
    IF s = "Idle" THEN <<"Recording", "Ok">>
    ELSE <<s, "Can only start recording from Idle state">>

\* pause_recording without its match on the state
pause_recording_unguarded(s) == <<"Paused", "Ok">>

pause_recording(s) ==
    IF s = "Recording" THEN <<"Paused", "Ok">>
    ELSE <<s, "Can only pause from Recording state">>

\* resume_recording without its match on the state
resume_recording_unguarded(s) == <<"Recording", "Ok">>

resume_recording(s) ==
    IF s = "Paused" THEN <<"Recording", "Ok">>
    ELSE <<s, "Can only resume from Paused state">>

stop_recording(s) ==
    IF s \in {"Recording", "Paused"} THEN <<"Idle", "Ok">>
    ELSE <<s, "Can only stop from Recording or Paused state">>

NoAutoRecord == "No auto-recording in progress"

(***************************************************************************)
(* recorder.rs: the commands.  Each runs under the Recorder mutex          *)
(* (commands.rs), so one command is one step.                              *)
(***************************************************************************)
CommandFrame == <<now, is_speaking, last_active_time, session, files, events,
                  sentences, naming,
                   negotiation, manual, unobserved, sync, trim>>

\* the errors of create_audio_config
ConfigErrors == {"No input device available", "No supported audio configuration found"}

\* a failed start that also drops the handle the recorder holds
StartAutoRecordNoConfig_takes_handle ==
    /\ ret' \in ConfigErrors
    /\ auto_record_state' = 0
    /\ UNCHANGED <<state, current_sentence_index, config, worker, CommandFrame>>

\* create_audio_config fails: no input device, or no supported configuration;
\* start_auto_record returns the error at its first line
StartAutoRecordNoConfig ==
    /\ ret' \in ConfigErrors
    /\ UNCHANGED <<auto_record_state, state, current_sentence_index, config,
                   worker, CommandFrame>>

\* a list as import_sentences makes it: ids 1.., none recorded yet; a text is
\* identified with the file name trim() and replace(" ", "_") make of it
Sentences(texts) ==
    [i \in 1..Len(texts) |-> [id |-> i, text |-> texts[i], recorded |-> FALSE]]

\* the list of n sentences whose texts name n different files
SentenceList(n) == Sentences([i \in 1..n |-> i])

\* start_auto_record(sentences, .., silence_duration_ms, silence_padding_ms):
\* build a fresh state, store it in the recorder, start it, spawn the worker.
\* r is the slot of the model that holds the new run: one no thread is using
StartAutoRecord(r, list, silence_duration, silence_padding, sample_rate) ==
    /\ worker[r].pc \in {"none", "exited"}
    /\ LET t == start_recording("Idle")
       IN  /\ auto_record_state' = r
           /\ state' = [state EXCEPT ![r] = t[1]]
           /\ current_sentence_index' = [current_sentence_index EXCEPT ![r] = 0]
           /\ is_speaking' = [is_speaking EXCEPT ![r] = FALSE]
           /\ last_active_time' = [last_active_time EXCEPT ![r] = now]
           /\ config' = [config EXCEPT ![r] =
                           [sentences |-> Len(list),
                            silence_duration |-> silence_duration,
                            silence_padding |-> silence_padding,
                            sample_rate |-> sample_rate]]
           /\ sentences' = [sentences EXCEPT ![r] = list]
           /\ events' = [events EXCEPT ![r] = <<>>]
           /\ ret' = t[2]
           /\ worker' = IF t[2] = "Ok"
                        THEN [worker EXCEPT ![r] = [pc |-> "loop_top", result |-> "none"]]
                        ELSE worker
    /\ UNCHANGED <<now, session, files, naming,
                   negotiation, manual, unobserved, sync, trim>>

StopAutoRecord ==
    /\ IF auto_record_state # 0
       THEN LET t == stop_recording(state[auto_record_state])
            IN  /\ state' = [state EXCEPT ![auto_record_state] = t[1]]
                /\ ret' = t[2]
       ELSE /\ ret' = NoAutoRecord
            /\ UNCHANGED state
    /\ auto_record_state' = 0
    /\ UNCHANGED <<current_sentence_index, config, worker, CommandFrame>>

PauseAutoRecord ==
    /\ IF auto_record_state # 0
       THEN LET t == pause_recording(state[auto_record_state])
            IN  /\ state' = [state EXCEPT ![auto_record_state] = t[1]]
                /\ ret' = t[2]
       ELSE /\ ret' = NoAutoRecord
            /\ UNCHANGED state
    /\ UNCHANGED <<auto_record_state, current_sentence_index, config, worker,
                   CommandFrame>>

ResumeAutoRecord ==
    /\ IF auto_record_state # 0
       THEN LET t == resume_recording(state[auto_record_state])
            IN  /\ state' = [state EXCEPT ![auto_record_state] = t[1]]
                /\ ret' = t[2]
       ELSE /\ ret' = NoAutoRecord
            /\ UNCHANGED state
    /\ UNCHANGED <<auto_record_state, current_sentence_index, config, worker,
                   CommandFrame>>

(***************************************************************************)
(* recorder.rs / stream.rs: the worker thread of a run.  One step per      *)
(* critical section on the AutoRecordState mutex (or per device call).     *)
(***************************************************************************)
WorkerFrame == <<now, auto_record_state, config, ret, sentences, naming,
                   negotiation, manual, unobserved, sync, trim>>

\* window.emit(..) by the worker of run r
Emit(r, e) == events' = [events EXCEPT ![r] = Append(events[r], e)]
\* a start event that does not say which sentence
StartSentence_unnumbered(id) == [name |-> "auto-record-start-sentence", id |-> 0]

StartSentence(id) == [name |-> "auto-record-start-sentence", id |-> id]
FinishSentence(id) == [name |-> "auto-record-finish-sentence", id |-> id]
Complete == [name |-> "auto-record-complete", id |-> 0]
Starts(r) == Cardinality({k \in 1..Len(events[r]) :
                             events[r][k].name = "auto-record-start-sentence"})

Goto(r, pc) == worker' = [worker EXCEPT ![r].pc = pc]
Return(r, result, pc) == worker' = [worker EXCEPT ![r] = [pc |-> pc, result |-> result]]

\* run_auto_record, top of the loop: leave when Idle or when the list is done,
\* else announce the sentence and call record_sentence
WorkerLoopTop(r) ==
    /\ worker[r].pc = "loop_top"
    /\ IF state[r] = "Idle" \/ current_sentence_index[r] >= config[r].sentences
       THEN /\ Goto(r, "finalize")
            /\ UNCHANGED events
       ELSE /\ Starts(r) < MaxStarts
            /\ Emit(r, StartSentence(sentences[r][current_sentence_index[r] + 1].id))
            /\ Goto(r, "prepare")
    /\ UNCHANGED <<state, current_sentence_index, is_speaking, last_active_time,
                   session, files, WorkerFrame>>

\* prepare_recording: WavWriter::create(&path, spec) creates or truncates the file;
\* initialize_recording_buffers: an empty utterance buffer and a bounded(1) channel
PrepareRecording(r) ==
    /\ worker[r].pc = "prepare"
    /\ LET path == SentencePath(r, current_sentence_index[r])
       IN  /\ files' = [files EXCEPT ![path] = [exists |-> TRUE, data |-> <<>>]]
           /\ session' = [session EXCEPT ![r] =
                            [NoSession EXCEPT !.writer = TRUE, !.path = path]]
    /\ Goto(r, "build")
    /\ UNCHANGED <<state, current_sentence_index, is_speaking, last_active_time,
                   events, WorkerFrame>>

\* build_audio_stream succeeds: the RecordingSession now owns stream and writer
BuildAudioStream(r) ==
    /\ worker[r].pc = "build"
    /\ session' = [session EXCEPT ![r].stream = "built"]
    /\ Goto(r, "play")
    /\ UNCHANGED <<state, current_sentence_index, is_speaking, last_active_time,
                   files, events, WorkerFrame>>

\* build_audio_stream fails (`?` at the call): record_sentence returns before any
\* RecordingSession exists, so no Drop runs; the writer goes out of scope
BuildAudioStreamFails(r) ==
    /\ worker[r].pc = "build"
    /\ session' = [session EXCEPT ![r] = NoSession]
    /\ Return(r, "Error", "finalize")
    /\ UNCHANGED <<state, current_sentence_index, is_speaking, last_active_time,
                   files, events, WorkerFrame>>

\* session.stream.play()
PlayStream(r) ==
    /\ worker[r].pc = "play"
    /\ session' = [session EXCEPT ![r].stream = "playing"]
    /\ Goto(r, "wait_voice")
    /\ UNCHANGED <<state, current_sentence_index, is_speaking, last_active_time,
                   files, events, WorkerFrame>>

\* play() fails: return Err(StreamPlayError), the session is dropped
PlayStreamFails(r) ==
    /\ worker[r].pc = "play"
    /\ Return(r, "Error", "drop_stream")
    /\ UNCHANGED <<state, current_sentence_index, is_speaking, last_active_time,
                   session, files, events, WorkerFrame>>

\* a send that queues every signal
try_send_unbounded(pending) == pending + 1

\* Sender::try_send(()) on the bounded channel, `pending` signals waiting in
\* it: the signal is queued if there is room and dropped if not; the call
\* returns at once either way
try_send(pending) == IF pending < ChannelBound THEN pending + 1 ELSE pending

\* a receiver that never finds the signal
try_recv_never(pending) == [ok |-> FALSE, pending |-> pending]

\* Receiver::try_recv().is_ok(), and what it leaves in the channel
try_recv(pending) ==
    IF pending > 0 THEN [ok |-> TRUE, pending |-> pending - 1]
    ELSE [ok |-> FALSE, pending |-> pending]

\* a state check that never aborts
check_recording_state_blind(s) == "Ok"

\* check_recording_state
check_recording_state(s) ==
    CASE s = "Paused" -> "RecordingPaused"
      [] s = "Idle" -> "RecordingStopped"
      [] OTHER -> "Ok"

\* wait_for_audio_event(Voice), one iteration: the state check, then try_recv;
\* neither succeeding, sleep 100 ms and come back
WaitVoice(r) ==
    /\ worker[r].pc = "wait_voice"
    /\ LET c == check_recording_state(state[r])
       IN  IF c # "Ok"
           THEN /\ Return(r, c, "drop_stream")
                /\ UNCHANGED session
           ELSE IF try_recv(session[r].voice_rx).ok
           THEN /\ session' = [session EXCEPT
                                ![r].voice_rx = try_recv(session[r].voice_rx).pending]
                /\ Goto(r, "wait_silence")
           ELSE UNCHANGED <<worker, session>>
    /\ UNCHANGED <<state, current_sentence_index, is_speaking, last_active_time,
                   files, events, WorkerFrame>>

\* wait_for_audio_event(Silence), one iteration: the state check, then
\* last_active.elapsed() >= silence_duration
WaitSilence(r) ==
    /\ worker[r].pc = "wait_silence"
    /\ LET c == check_recording_state(state[r])
       IN  IF c # "Ok"
           THEN Return(r, c, "drop_stream")
           ELSE IF now - last_active_time[r] >= config[r].silence_duration
           THEN Return(r, "Ok", "drop_stream")
           ELSE UNCHANGED worker
    /\ UNCHANGED <<state, current_sentence_index, is_speaking, last_active_time,
                   session, files, events, WorkerFrame>>

\* a drop that flushes the writer and leaves the stream for later
DropStream_flushes_first(r) ==
    /\ worker[r].pc = "drop_stream"
    /\ session' = [session EXCEPT ![r].flushed = TRUE]
    /\ Goto(r, "drop_file")
    /\ UNCHANGED <<state, current_sentence_index, is_speaking, last_active_time,
                   files, events, WorkerFrame>>

\* RecordingSession::drop, first half: drop(stream) returns once the device
\* calls the callback no more (and with the callback go its carry-over buffer
\* and its Sender), then writer.flush()
DropStream(r) ==
    /\ worker[r].pc = "drop_stream"
    /\ session' = [session EXCEPT ![r].stream = "none", ![r].flushed = TRUE]
    /\ Goto(r, "drop_file")
    /\ UNCHANGED <<state, current_sentence_index, is_speaking, last_active_time,
                   files, events, WorkerFrame>>

\* a drop that never removes the file
DropFile_keeps(s, path, fs) == fs

\* what RecordingSession::drop does to the file at `path` when it reads state `s`
DropFile(s, path, fs) ==
    IF s = "Idle" THEN [fs EXCEPT ![path] = NoFile] ELSE fs

\* a loop that treats every error like a pause: wait, then retry
AfterRecordSentence_retries(result) ==
    CASE result = "Ok" -> "success"
      [] OTHER -> "paused"

\* where run_auto_record goes with record_sentence's result
AfterRecordSentence(result) ==
    CASE result = "Ok" -> "success"
      [] result = "RecordingPaused" -> "paused"
      [] OTHER -> "finalize"

\* RecordingSession::drop, second half: is_stopped = (state == Idle), and
\* remove_file(&path) if so; then record_sentence has returned
DropSession(r) ==
    /\ worker[r].pc = "drop_file"
    /\ files' = DropFile(state[r], session[r].path, files)
    /\ session' = [session EXCEPT ![r] = NoSession]
    /\ Goto(r, AfterRecordSentence(worker[r].result))
    /\ UNCHANGED <<state, current_sentence_index, is_speaking, last_active_time,
                   events, WorkerFrame>>

\* handle_successful_recording: emit the finish event, advance the index
HandleSuccessfulRecording(r) ==
    /\ worker[r].pc = "success"
    /\ current_sentence_index' =
         [current_sentence_index EXCEPT ![r] = current_sentence_index[r] + 1]
    /\ Emit(r, FinishSentence(sentences[r][current_sentence_index[r] + 1].id))
    /\ Return(r, "none", "loop_top")
    /\ UNCHANGED <<state, is_speaking, last_active_time, session, files, WorkerFrame>>

\* a resume that moves on to the next sentence instead of retrying
HandlePausedRecording_skips(r) ==
    /\ worker[r].pc = "paused"
    /\ CASE state[r] = "Idle" ->
              /\ Return(r, "none", "finalize")
              /\ UNCHANGED current_sentence_index
         [] state[r] = "Recording" ->
              /\ Return(r, "none", "loop_top")
              /\ current_sentence_index' =
                   [current_sentence_index EXCEPT ![r] = current_sentence_index[r] + 1]
         [] OTHER -> UNCHANGED <<worker, current_sentence_index>>
    /\ UNCHANGED <<state, is_speaking, last_active_time, session, files, events,
                   WorkerFrame>>

\* handle_paused_recording, one iteration: Idle -> false (leave the loop),
\* Recording -> true (retry the sentence), Paused -> sleep 100 ms
HandlePausedRecording(r) ==
    /\ worker[r].pc = "paused"
    /\ CASE state[r] = "Idle" -> Return(r, "none", "finalize")
         [] state[r] = "Recording" -> Return(r, "none", "loop_top")
         [] OTHER -> UNCHANGED worker
    /\ UNCHANGED <<state, current_sentence_index, is_speaking, last_active_time,
                   session, files, events, WorkerFrame>>

\* a finalize that emits the event but leaves the state as it is
FinalizeRecording_keeps_state(r) ==
    /\ worker[r].pc = "finalize"
    /\ Emit(r, Complete)
    /\ Return(r, "none", "exited")
    /\ UNCHANGED <<state, current_sentence_index, is_speaking, last_active_time,
                   session, files, WorkerFrame>>

\* finalize_recording: emit auto-record-complete, force the state to Idle
FinalizeRecording(r) ==
    /\ worker[r].pc = "finalize"
    /\ Emit(r, Complete)
    /\ state' = [state EXCEPT ![r] = "Idle"]
    /\ Return(r, "none", "exited")
    /\ UNCHANGED <<current_sentence_index, is_speaking, last_active_time, session,
                   files, WorkerFrame>>

(***************************************************************************)
(* stream.rs: the input callback of a session's stream.                    *)
(***************************************************************************)
\* a split that discards a last piece shorter than adjusted_chunk_size
RECURSIVE SplitFrames_drops_short(_, _)
SplitFrames_drops_short(data, adjusted) ==
    IF SLen(data) >= adjusted
    THEN <<STake(data, adjusted)>>
         \o SplitFrames_drops_short(SDrop(data, adjusted), adjusted)
    ELSE <<>>

\* process_audio_chunk, the split of one drained chunk: pieces of
\* adjusted_chunk_size samples, and whatever is left as a last, shorter piece
RECURSIVE SplitFrames(_, _)
SplitFrames(data, adjusted) ==
    IF data = <<>> THEN <<>>
    ELSE IF SLen(data) >= adjusted
         THEN <<STake(data, adjusted)>> \o SplitFrames(SDrop(data, adjusted), adjusted)
         ELSE <<data>>

\* the callback's loop: while buffer.len() >= chunk_size, drain(..chunk_size)
\* and process it; the pieces processed, in order
RECURSIVE ChunkFrames(_, _, _)
ChunkFrames(buffer, chunk_size, adjusted) ==
    IF SLen(buffer) >= chunk_size
    THEN SplitFrames(STake(buffer, chunk_size), adjusted)
         \o ChunkFrames(SDrop(buffer, chunk_size), chunk_size, adjusted)
    ELSE <<>>

\* a callback that throws away the samples short of a chunk
Remainder_drops_tail(buffer, chunk_size) == <<>>

\* what the loop leaves in the carry-over buffer
RECURSIVE Remainder(_, _)
Remainder(buffer, chunk_size) ==
    IF SLen(buffer) >= chunk_size
    THEN Remainder(SDrop(buffer, chunk_size), chunk_size)
    ELSE buffer

\* a handler that measures the elapsed time after its own reset: always zero
handle_voice_detected_resets_first(c, elapsed, t) ==
    [c EXCEPT !.last_active_time = t]

\* handle_voice_detected: reset last_active_time; if the time since the previous
\* reset is at least 200 ms, set is_speaking and try_send on the bounded(1) channel
handle_voice_detected(c, elapsed, t) ==
    IF elapsed >= GraceMs
    THEN [c EXCEPT !.last_active_time = t, !.is_speaking = TRUE,
                   !.voice_rx = try_send(c.voice_rx)]
    ELSE [c EXCEPT !.last_active_time = t]

\* handle_silence_detected that ends the utterance at the first silence frame
handle_silence_detected_at_once(c, elapsed, silence_duration, P) ==
    IF c.is_speaking
    THEN [c EXCEPT !.is_speaking = FALSE,
                   !.written = c.written \o write_trimmed_audio(c.audio_chunks, P)]
    ELSE c

\* handle_silence_detected that writes but leaves is_speaking set
handle_silence_detected_keeps_speaking(c, elapsed, silence_duration, P) ==
    IF elapsed >= silence_duration /\ c.is_speaking
    THEN [c EXCEPT !.written = c.written \o write_trimmed_audio(c.audio_chunks, P)]
    ELSE c

\* handle_silence_detected: once elapsed >= silence_duration while speaking,
\* clear is_speaking and write the trimmed buffer
handle_silence_detected(c, elapsed, silence_duration, P) ==
    IF elapsed >= silence_duration /\ c.is_speaking
    THEN [c EXCEPT !.is_speaking = FALSE,
                   !.written = c.written \o write_trimmed_audio(c.audio_chunks, P)]
    ELSE c

\* process_audio_chunk for one piece: push it with the VAD's verdict, read
\* elapsed, then handle voice or silence
ProcessFrame(c, chunk, is_voice, t, silence_duration, P) ==
    LET pushed == [c EXCEPT !.audio_chunks =
                      Append(c.audio_chunks, [chunk |-> chunk, is_voice |-> is_voice])]
        elapsed == t - c.last_active_time
    IN  IF is_voice
        THEN handle_voice_detected(pushed, elapsed, t)
        ELSE handle_silence_detected(pushed, elapsed, silence_duration, P)

RECURSIVE ProcessFrames(_, _, _, _, _, _)
ProcessFrames(c, frames, tags, t, silence_duration, P) ==
    IF frames = <<>> THEN c
    ELSE ProcessFrames(ProcessFrame(c, Head(frames), Head(tags), t, silence_duration, P),
                       Tail(frames), Tail(tags), t, silence_duration, P)

\* the pieces a callback delivering n samples to run r's session will process
CallbackFrames(r, n) ==
    ChunkFrames(SCat(session[r].data_buffer, Interval(session[r].delivered, n)),
                get_chunk_size(config[r].sample_rate),
                adjusted_chunk_size(config[r].sample_rate))

\* WavWriter::write_sample for every sample of every frame, in order
WriteSamples(file, frames) ==
    IF file.exists THEN [file EXCEPT !.data = SCat(file.data, Flatten(frames))]
    ELSE file

\* what the I16 input callback does with data of n samples, the VAD's
\* verdicts in `tags`: extend the carry-over buffer, drain and process chunks
ProcessInput(r, n, tags) ==
    /\ session[r].stream = "playing"
    /\ LET buffer == SCat(session[r].data_buffer, Interval(session[r].delivered, n))
           frames == CallbackFrames(r, n)
           c0 == [audio_chunks |-> session[r].audio_chunks,
                  is_speaking |-> is_speaking[r],
                  last_active_time |-> last_active_time[r],
                  voice_rx |-> session[r].voice_rx,
                  written |-> <<>>]
           c == ProcessFrames(c0, frames, tags, now, config[r].silence_duration,
                              PaddingFrames(config[r].silence_padding,
                                            config[r].sample_rate))
       IN  /\ session' = [session EXCEPT
                            ![r].data_buffer =
                                Remainder(buffer, get_chunk_size(config[r].sample_rate)),
                            ![r].delivered = session[r].delivered + n,
                            ![r].audio_chunks = c.audio_chunks,
                            ![r].voice_rx = c.voice_rx]
           /\ is_speaking' = [is_speaking EXCEPT ![r] = c.is_speaking]
           /\ last_active_time' = [last_active_time EXCEPT ![r] = c.last_active_time]
           /\ files' = [files EXCEPT ![session[r].path] =
                           WriteSamples(files[session[r].path], c.written)]
    /\ UNCHANGED <<now, auto_record_state, state, current_sentence_index,
                   config, worker, ret, events, sentences, naming,
                   negotiation, manual, sync, trim>>

\* the utterance buffer of run r's session takes the frames of a callback of
\* n samples without growing past `limit` frames
Room(r, n, limit) ==
    Len(session[r].audio_chunks) + Len(CallbackFrames(r, n)) <= limit

\* the I16 input callback: data of n samples, the VAD's verdicts in `tags`
InputCallback(r, n, tags) ==
    /\ Room(r, n, MaxFrames)
    /\ ProcessInput(r, n, tags)
    /\ UNCHANGED unobserved

\* the same callback, its frames counted while the state is not Recording
ObservedCallback(r, n, tags) ==
    /\ Room(r, n, MaxFrames)
    /\ ProcessInput(r, n, tags)
    /\ unobserved' = [unobserved EXCEPT ![r] =
                         IF state[r] = "Recording" THEN 0
                         ELSE unobserved[r] + Len(CallbackFrames(r, n))]

\* the clock advances
Tick(limit) ==
    /\ now + PollMs <= limit
    /\ now' = now + PollMs
    /\ UNCHANGED <<auto_record_state, state, current_sentence_index, is_speaking,
                   last_active_time, config, worker, session, files, ret, events,
                   sentences, naming,
                   negotiation, manual, unobserved, sync, trim>>

(***************************************************************************)
(* The system: commands from the UI, the workers, the device, the clock.   *)
(***************************************************************************)
Worker(r) ==
    \/ WorkerLoopTop(r)
    \/ PrepareRecording(r)
    \/ BuildAudioStream(r)
    \/ BuildAudioStreamFails(r)
    \/ PlayStream(r)
    \/ PlayStreamFails(r)
    \/ WaitVoice(r)
    \/ WaitSilence(r)
    \/ DropStream(r)
    \/ DropSession(r)
    \/ HandleSuccessfulRecording(r)
    \/ HandlePausedRecording(r)
    \/ FinalizeRecording(r)

\* the device hands the callback one chunk at a time
ChunkLens(r) == {get_chunk_size(config[r].sample_rate)}

Device(r) ==
    /\ session[r].stream = "playing"
    /\ \E n \in ChunkLens(r) :
        \E tags \in [1..Len(CallbackFrames(r, n)) -> BOOLEAN] :
            InputCallback(r, n, tags)

NoWorkerAlive == \A r \in Runs : worker[r].pc \in {"none", "exited"}

(***************************************************************************)
(* Spec: the UI calls start_auto_record only while no worker thread of an  *)
(* earlier run is alive; runs follow one another.                          *)
(***************************************************************************)
SentenceCounts == {NumSentences}
SilenceDurations == {100}
SilencePaddings == {40}
SampleRates == {16000}

Start ==
    /\ NoWorkerAlive
    /\ \E n \in SentenceCounts, sd \in SilenceDurations, sp \in SilencePaddings,
          sr \in SampleRates : StartAutoRecord(1, SentenceList(n), sd, sp, sr)

Next ==
    \/ StartAutoRecordNoConfig
    \/ Start
    \/ StopAutoRecord
    \/ PauseAutoRecord
    \/ ResumeAutoRecord
    \/ Worker(1)
    \/ Device(1)
    \/ Tick(MaxTime)

Spec == Init /\ [][Next]_vars

(***************************************************************************)
(* SpecOverlap: start_auto_record is called whenever the UI likes, also    *)
(* while the worker of an earlier run is alive.  The runs are short (one   *)
(* sentence, no padding), at most MaxRuns of them are started, and all of  *)
(* it happens within one clock tick: these are behaviours of the program,  *)
(* not all of them.                                                        *)
(***************************************************************************)
FreeSlot(r) ==
    /\ worker[r].pc = "none"
    /\ \A q \in Runs : q < r => worker[q].pc # "none"

StartOverlap == \E r \in Runs : FreeSlot(r) /\ StartAutoRecord(r, SentenceList(1), 100, 0, 16000)

\* the clock standing still, no voice frame comes 200 ms after the last reset:
\* no worker gets past its wait for voice
WorkerBeforeVoice(r) ==
    \/ WorkerLoopTop(r)
    \/ PrepareRecording(r)
    \/ BuildAudioStream(r)
    \/ BuildAudioStreamFails(r)
    \/ PlayStream(r)
    \/ PlayStreamFails(r)
    \/ WaitVoice(r)
    \/ DropStream(r)
    \/ DropSession(r)
    \/ HandlePausedRecording(r)
    \/ FinalizeRecording(r)

NextOverlap ==
    \/ StartOverlap
    \/ StopAutoRecord
    \/ PauseAutoRecord
    \/ ResumeAutoRecord
    \/ \E r \in Runs : WorkerBeforeVoice(r)
    \/ \E r \in Runs : Device(r)

SpecOverlap == Init /\ [][NextOverlap]_vars

(***************************************************************************)
(* SpecDevice: one run that the UI neither pauses nor stops, at any of the *)
(* negotiable rates, with a device that hands the callback buffers of any  *)
(* of several lengths (none of them a chunk).                              *)
(***************************************************************************)
DeviceRates == {8000, 16000, 44100}
BufferLens == {160, 441, 1000}

StartDevice ==
    /\ worker[1].pc = "none"
    /\ \E sr \in DeviceRates : StartAutoRecord(1, SentenceList(1), 100, 40, sr)

DeviceAnyLength(r) ==
    /\ session[r].stream = "playing"
    /\ \E n \in BufferLens :
        \E tags \in [1..Len(CallbackFrames(r, n)) -> BOOLEAN] :
            InputCallback(r, n, tags)

NextDevice ==
    \/ StartDevice
    \/ WorkerLoopTop(1)
    \/ PrepareRecording(1)
    \/ BuildAudioStream(1)
    \/ BuildAudioStreamFails(1)
    \/ PlayStream(1)
    \/ PlayStreamFails(1)
    \/ WaitVoice(1)
    \/ WaitSilence(1)
    \/ DropStream(1)
    \/ DropSession(1)
    \/ HandleSuccessfulRecording(1)
    \/ FinalizeRecording(1)
    \/ DeviceAnyLength(1)
    \/ Tick(3 * PollMs)

SpecDevice == Init /\ [][NextDevice]_vars

(***************************************************************************)
(* SpecTrim: write_trimmed_audio on every tagged buffer of up to           *)
(* MaxBuffer frames, for paddings of 0, 1 and 2 frames at 16 kHz.          *)
(***************************************************************************)
TrimPaddings == {0, 40, 70}

\* the buffer the callback builds at 16 kHz for the verdicts in `tags`
TaggedBuffer(tags, sample_rate) ==
    [i \in 1..Len(tags) |->
        [chunk |-> Interval((i - 1) * get_chunk_size(sample_rate),
                            get_chunk_size(sample_rate)),
         is_voice |-> tags[i]]]

InitTrim ==
    /\ now = 0
    /\ auto_record_state = 0
    /\ state = [r \in Runs |-> "Idle"]
    /\ current_sentence_index = [r \in Runs |-> 0]
    /\ is_speaking = [r \in Runs |-> FALSE]
    /\ last_active_time = [r \in Runs |-> 0]
    /\ config = [r \in Runs |-> NoConfig]
    /\ worker = [r \in Runs |-> [pc |-> "none", result |-> "none"]]
    /\ session = [r \in Runs |-> NoSession]
    /\ files = [p \in Paths |-> NoFile]
    /\ ret = "none"
    /\ events = [r \in Runs |-> <<>>]
    /\ sentences = [r \in Runs |-> <<>>]
    /\ naming = NoNaming
    /\ negotiation = NoNegotiation
    /\ manual = NoManual
    /\ unobserved = [r \in Runs |-> 0]
    /\ sync = NoSync
    /\ \E n \in 0..MaxBuffer, sp \in TrimPaddings :
         \E tags \in [1..n -> BOOLEAN] :
            trim = [chunks |-> TaggedBuffer(tags, VadRate), silence_padding |-> sp,
                    sample_rate |-> VadRate, called |-> FALSE, panicked |-> FALSE,
                    written |-> <<>>]

TrimCall ==
    /\ ~trim.called
    /\ LET P == PaddingFrames(trim.silence_padding, trim.sample_rate)
           panics == write_trimmed_audio_panics(trim.chunks, P)
       IN  trim' = [trim EXCEPT
                      !.called = TRUE,
                      !.panicked = panics,
                      !.written = IF panics THEN <<>>
                                  ELSE write_trimmed_audio(trim.chunks, P)]
    /\ UNCHANGED <<now, auto_record_state, state, current_sentence_index, is_speaking,
                   last_active_time, config, worker, session, files, ret, events,
                   sentences, naming, negotiation, manual, unobserved, sync>>

SpecTrim == InitTrim /\ [][TrimCall]_vars

(***************************************************************************)
(* SpecPath: the naming of one sentence's file taken alone.  A line of the *)
(* sentence file is parsed and imported (file_utils.rs), the sentence is   *)
(* recorded (prepare_recording) and its finish event is emitted            *)
(* (handle_successful_recording).  Texts are sequences of characters,      *)
(* paths a directory (a sequence of components) and a file name.           *)
(***************************************************************************)
Chars == {"a", "b", " "}
Lines == UNION {[1..n -> Chars] : n \in 1..MaxText}
Formats == {"txt", "csv"}
HomeDir == <<"/", "home">>
\* the project directory the UI passes to both commands, an absolute path
ProjectDirs == {<<"/", "projects">>}

\* str::trim
RECURSIVE trim_start(_)
trim_start(text) ==
    IF text # <<>> /\ Head(text) = " " THEN trim_start(Tail(text)) ELSE text

RECURSIVE trim_end(_)
trim_end(text) ==
    IF text # <<>> /\ text[Len(text)] = " "
    THEN trim_end(SubSeq(text, 1, Len(text) - 1))
    ELSE text

str_trim(text) == trim_end(trim_start(text))

\* str::replace(" ", "_")
replace(text) == [i \in 1..Len(text) |-> IF text[i] = " " THEN "_" ELSE text[i]]

\* Path::join: an absolute path replaces the base
Join(base, path) == IF path # <<>> /\ path[1] = "/" THEN path ELSE base \o path

\* parse_txt trims the line, parse_delimited takes the field as it is
ParsedText(format, line) == IF format = "txt" THEN str_trim(line) ELSE line

\* import_sentences: Path::new(project_dir).join(format!("{}.wav", sentence.text))
import_sentences(project_dir, text) ==
    [dir |-> project_dir, name |-> text \o <<".wav">>]

\* get_or_create_project_directory: home.join(project_directory)
get_or_create_project_directory(project_directory) == Join(HomeDir, project_directory)

\* prepare_recording:
\* project_dir.join(format!("{}.wav", sentence.text.trim().replace(" ", "_")))
prepare_recording(project_directory, text) ==
    [dir |-> get_or_create_project_directory(project_directory),
     name |-> replace(str_trim(text)) \o <<".wav">>]

InitPath ==
    /\ now = 0
    /\ auto_record_state = 0
    /\ state = [r \in Runs |-> "Idle"]
    /\ current_sentence_index = [r \in Runs |-> 0]
    /\ is_speaking = [r \in Runs |-> FALSE]
    /\ last_active_time = [r \in Runs |-> 0]
    /\ config = [r \in Runs |-> NoConfig]
    /\ worker = [r \in Runs |-> [pc |-> "none", result |-> "none"]]
    /\ session = [r \in Runs |-> NoSession]
    /\ files = [p \in Paths |-> NoFile]
    /\ ret = "none"
    /\ events = [r \in Runs |-> <<>>]
    /\ sentences = [r \in Runs |-> <<>>]
    /\ trim = NoTrim
    /\ negotiation = NoNegotiation
    /\ manual = NoManual
    /\ unobserved = [r \in Runs |-> 0]
    /\ sync = NoSync
    /\ \E line \in Lines, format \in Formats, dir \in ProjectDirs :
         naming = [NoNaming EXCEPT !.text = ParsedText(format, line),
                                   !.project_dir = dir, !.stage = "parsed"]

PathFrame == <<now, auto_record_state, state, current_sentence_index, is_speaking,
               last_active_time, config, worker, session, files, ret, events,
               sentences, negotiation, manual, unobserved, sync, trim>>

\* import_sentences gives the parsed sentence its audio_file_path
ImportSentences ==
    /\ naming.stage = "parsed"
    /\ naming' = [naming EXCEPT
                    !.audio_file_path = import_sentences(naming.project_dir, naming.text),
                    !.stage = "imported"]
    /\ UNCHANGED PathFrame

\* the sentence is recorded: prepare_recording creates its file, and
\* handle_successful_recording emits sentence.audio_file_path.unwrap_or_default()
RecordSentence ==
    /\ naming.stage = "imported"
    /\ naming' = [naming EXCEPT
                    !.created = prepare_recording(naming.project_dir, naming.text),
                    !.emitted = naming.audio_file_path,
                    !.stage = "recorded"]
    /\ UNCHANGED PathFrame

NextPath == ImportSentences \/ RecordSentence

SpecPath == InitPath /\ [][NextPath]_vars

(***************************************************************************)
(* SpecList: one run that the UI neither pauses nor stops, over every list *)
(* of NumSentences sentences: the ids are 1..NumSentences, the texts are   *)
(* whatever the sentence file held, so two sentences may have the same     *)
(* text (or texts that trim() and replace(" ", "_") make the same).        *)
(***************************************************************************)
TextLists == [1..NumSentences -> Paths]

StartList ==
    /\ worker[1].pc = "none"
    /\ \E texts \in TextLists : StartAutoRecord(1, Sentences(texts), 100, 0, 16000)

NextList ==
    \/ StartList
    \/ WorkerLoopTop(1)
    \/ PrepareRecording(1)
    \/ BuildAudioStream(1)
    \/ BuildAudioStreamFails(1)
    \/ PlayStream(1)
    \/ PlayStreamFails(1)
    \/ WaitVoice(1)
    \/ WaitSilence(1)
    \/ DropStream(1)
    \/ DropSession(1)
    \/ HandleSuccessfulRecording(1)
    \/ FinalizeRecording(1)
    \/ Device(1)
    \/ Tick(MaxTime)

SpecList == Init /\ [][NextList]_vars

(***************************************************************************)
(* SpecConfig: create_audio_config taken alone, on every input device that *)
(* lists up to MaxRanges supported ranges (or none, or cannot be asked),   *)
(* followed by the frame sizing build_audio_stream does for the rate.      *)
(***************************************************************************)
\* the sample rates a device gives as the ends of a supported range
RangeEnds == {4000, 8000, 16000, 22050, 32000, 44100, 48000, 96000}
Ranges == {range \in RangeEnds \X RangeEnds : range[1] <= range[2]}
RangeLists == UNION {[1..n -> Ranges] : n \in 0..MaxRanges}

\* default_input_device() is None; or supported_input_configs() is an error;
\* or it lists ranges
Devices ==
    {NoDevice, [present |-> TRUE, supported |-> "Err", ranges |-> <<>>]}
    \cup {[present |-> TRUE, supported |-> "Ok", ranges |-> l] : l \in RangeLists}

\* [48000, ..].iter().find(|rate| rate >= min_rate && rate <= max_rate),
\* 0 for None
RECURSIVE find(_, _)
find(rates, range) ==
    IF rates = <<>> THEN 0
    ELSE IF Head(rates) >= range[1] /\ Head(rates) <= range[2] THEN Head(rates)
    ELSE find(Tail(rates), range)

\* supported_input_configs().find_map(..): the ranges in the device's order,
\* the first one that holds a rate of the list decides; 0 for None
RECURSIVE find_map(_)
find_map(ranges) ==
    IF ranges = <<>> THEN 0
    ELSE LET rate == find(PreferredRates, Head(ranges))
         IN  IF rate # 0 THEN rate ELSE find_map(Tail(ranges))

\* find_supported_config: .ok()? makes an error of the device None
find_supported_config(device) ==
    IF device.supported = "Err" THEN 0 ELSE find_map(device.ranges)

\* create_audio_config: the result and AudioConfig.sample_rate
create_audio_config(device) ==
    IF ~device.present
    THEN [result |-> "No input device available", sample_rate |-> 0]
    ELSE IF find_supported_config(device) = 0
    THEN [result |-> "No supported audio configuration found", sample_rate |-> 0]
    ELSE [result |-> "Ok", sample_rate |-> find_supported_config(device)]

InitConfig ==
    /\ now = 0
    /\ auto_record_state = 0
    /\ state = [r \in Runs |-> "Idle"]
    /\ current_sentence_index = [r \in Runs |-> 0]
    /\ is_speaking = [r \in Runs |-> FALSE]
    /\ last_active_time = [r \in Runs |-> 0]
    /\ config = [r \in Runs |-> NoConfig]
    /\ worker = [r \in Runs |-> [pc |-> "none", result |-> "none"]]
    /\ session = [r \in Runs |-> NoSession]
    /\ files = [p \in Paths |-> NoFile]
    /\ ret = "none"
    /\ events = [r \in Runs |-> <<>>]
    /\ sentences = [r \in Runs |-> <<>>]
    /\ naming = NoNaming
    /\ manual = NoManual
    /\ unobserved = [r \in Runs |-> 0]
    /\ sync = NoSync
    /\ trim = NoTrim
    /\ \E device \in Devices :
         negotiation = [NoNegotiation EXCEPT !.device = device, !.stage = "device"]

ConfigFrame == <<now, auto_record_state, state, current_sentence_index, is_speaking,
                 last_active_time, config, worker, session, files, ret, events,
                 sentences, naming, manual, unobserved, sync, trim>>

\* start_auto_record, first line: let audio_config = self.create_audio_config()?
CreateAudioConfig ==
    /\ negotiation.stage = "device"
    /\ LET c == create_audio_config(negotiation.device)
       IN  negotiation' = [negotiation EXCEPT
                             !.result = c.result,
                             !.sample_rate = c.sample_rate,
                             !.stage = IF c.result = "Ok" THEN "configured" ELSE "failed"]
    /\ UNCHANGED ConfigFrame

\* build_audio_stream: let chunk_size = get_chunk_size(original_sample_rate)?
GetChunkSize ==
    /\ negotiation.stage = "configured"
    /\ negotiation' = [negotiation EXCEPT
                          !.chunk_size = get_chunk_size(negotiation.sample_rate),
                          !.stage = "built"]
    /\ UNCHANGED ConfigFrame

NextConfig == CreateAudioConfig \/ GetChunkSize

SpecConfig == InitConfig /\ [][NextConfig]_vars

(***************************************************************************)
(* SpecManual: the manual recording of recorder.rs, start_recording and    *)
(* stop_recording called in any order with any filename of up to MaxName   *)
(* characters.  Both commands are synchronous and run under the Recorder   *)
(* mutex on the thread that owns RECORDING_STREAM, so one call is one      *)
(* step.  What the device and the filesystem answer is an input.           *)
(***************************************************************************)
NameChars == {"a", "."}
Filenames == UNION {[1..n -> NameChars] : n \in 1..MaxName}

\* str::contains
contains(text, pattern) ==
    \E i \in 1..(Len(text) - Len(pattern) + 1) :
        SubSeq(text, i, i + Len(pattern) - 1) = pattern

\* how far a start_recording call gets when nothing of the recorder stops it
Outcomes == {"No input device available", "DefaultStreamConfigError", "IoError",
             "Unsupported sample format", "BuildStreamError", "PlayStreamError",
             "Recording started"}
\* the failures that come after WavWriter::create(&filename, spec) succeeded
AfterCreate == {"Unsupported sample format", "BuildStreamError", "PlayStreamError"}

\* a start_recording that does not look at self.writer
Recorder_start_recording_reentrant(m, filename, outcome) ==
    IF contains(filename, <<".", ".">>)
    THEN [manual |-> m, ret |-> "Invalid filename"]
    ELSE IF outcome \in AfterCreate
    THEN [manual |-> [m EXCEPT !.opened = m.opened \cup {filename}], ret |-> outcome]
    ELSE IF outcome = "Recording started"
    THEN [manual |-> [writer |-> filename, stream |-> "playing",
                      opened |-> m.opened \cup {filename}],
          ret |-> outcome]
    ELSE [manual |-> m, ret |-> outcome]

\* Recorder::start_recording: the recorder `m` after the call and the result
Recorder_start_recording(m, filename, outcome) ==
    IF m.writer # NoWriter
    THEN [manual |-> m, ret |-> "Recording is already in progress"]
    ELSE IF contains(filename, <<".", ".">>)
    THEN [manual |-> m, ret |-> "Invalid filename"]
    ELSE IF outcome \in AfterCreate
    THEN [manual |-> [m EXCEPT !.opened = m.opened \cup {filename}], ret |-> outcome]
    ELSE IF outcome = "Recording started"
    THEN [manual |-> [writer |-> filename, stream |-> "playing",
                      opened |-> m.opened \cup {filename}],
          ret |-> outcome]
    ELSE [manual |-> m, ret |-> outcome]

\* Recorder::stop_recording
Recorder_stop_recording(m) ==
    IF m.writer # NoWriter
    THEN [manual |-> [m EXCEPT !.writer = NoWriter, !.stream = "None"],
          ret |-> "Recording stopped"]
    ELSE [manual |-> m, ret |-> "No recording in progress"]

ManualFrame == <<now, auto_record_state, state, current_sentence_index, is_speaking,
                 last_active_time, config, worker, session, files, events,
                 sentences, naming, negotiation, unobserved, sync, trim>>

StartRecording(filename, outcome) ==
    /\ LET t == Recorder_start_recording(manual, filename, outcome)
       IN  ret' = t.ret /\ manual' = t.manual
    /\ UNCHANGED ManualFrame

StopRecording ==
    /\ LET t == Recorder_stop_recording(manual)
       IN  manual' = t.manual /\ ret' = t.ret
    /\ UNCHANGED ManualFrame

NextManual ==
    \/ \E filename \in Filenames, outcome \in Outcomes : StartRecording(filename, outcome)
    \/ StopRecording

SpecManual == Init /\ [][NextManual]_vars

(***************************************************************************)
(* SpecCancel: one run of one sentence that the UI pauses, resumes and     *)
(* stops as it likes while the device goes on calling the callback; the    *)
(* frames the callback processes while the state is not Recording are      *)
(* counted.  The clock stands still: all of it happens within one poll     *)
(* interval, in which a device at 16 kHz delivers three 512-sample chunks. *)
(***************************************************************************)
StartCancel ==
    /\ worker[1].pc = "none"
    /\ StartAutoRecord(1, SentenceList(1), 100, 0, 16000)

ObservedDevice(r) ==
    /\ session[r].stream = "playing"
    /\ \E n \in ChunkLens(r) :
        \E tags \in [1..Len(CallbackFrames(r, n)) -> BOOLEAN] :
            ObservedCallback(r, n, tags)

NextCancel ==
    \/ StartCancel
    \/ StopAutoRecord
    \/ PauseAutoRecord
    \/ ResumeAutoRecord
    \/ WorkerBeforeVoice(1)
    \/ ObservedDevice(1)

SpecCancel == Init /\ [][NextCancel]_vars

(***************************************************************************)
(* SpecFair: one run of one sentence with the whole worker, the device,    *)
(* the clock and the commands of the UI, and a worker thread that the      *)
(* scheduler keeps running: std::thread::spawn(..) and sleep(100 ms) in     *)
(* every loop of run_auto_record, so whatever step the worker can take it  *)
(* takes in the end.  Nothing is assumed of the device or of the UI.       *)
(***************************************************************************)
NextLive ==
    \/ StartCancel
    \/ StopAutoRecord
    \/ PauseAutoRecord
    \/ ResumeAutoRecord
    \/ Worker(1)
    \/ Device(1)
    \/ Tick(MaxTime)

SpecFair == Init /\ [][NextLive]_vars /\ WF_vars(Worker(1))

(***************************************************************************)
(* SpecTimed: one run of one sentence that the UI may stop but does not    *)
(* pause, with a worker thread that is kept running and a clock that goes  *)
(* on (Instant::now() while the worker sleeps) as far as the model's time  *)
(* reaches.                                                                *)
(***************************************************************************)
NextSentence ==
    \/ StartCancel
    \/ StopAutoRecord
    \/ WorkerLoopTop(1)
    \/ PrepareRecording(1)
    \/ BuildAudioStream(1)
    \/ BuildAudioStreamFails(1)
    \/ PlayStream(1)
    \/ PlayStreamFails(1)
    \/ WaitVoice(1)
    \/ WaitSilence(1)
    \/ DropStream(1)
    \/ DropSession(1)
    \/ HandleSuccessfulRecording(1)
    \/ FinalizeRecording(1)
    \/ Device(1)
    \/ Tick(MaxTime)

SpecTimed == Init /\ [][NextSentence]_vars /\ WF_vars(Worker(1)) /\ WF_vars(Tick(MaxTime))

(***************************************************************************)
(* SpecRepeat: one run of one sentence, left alone by the UI, whose        *)
(* session goes on one frame longer than the sessions of Spec: long enough *)
(* for an utterance to end, another to begin and that one to end as well.  *)
(***************************************************************************)
LongSession(r) ==
    /\ session[r].stream = "playing"
    /\ \E n \in ChunkLens(r) :
        \E tags \in [1..Len(CallbackFrames(r, n)) -> BOOLEAN] :
            /\ Room(r, n, MaxFrames + 1)
            /\ ProcessInput(r, n, tags)
            /\ UNCHANGED unobserved

NextRepeat ==
    \/ StartCancel
    \/ WorkerLoopTop(1)
    \/ PrepareRecording(1)
    \/ BuildAudioStream(1)
    \/ PlayStream(1)
    \/ WaitVoice(1)
    \/ WaitSilence(1)
    \/ DropStream(1)
    \/ DropSession(1)
    \/ HandleSuccessfulRecording(1)
    \/ FinalizeRecording(1)
    \/ LongSession(1)
    \/ Tick(MaxTime)

SpecRepeat == Init /\ [][NextRepeat]_vars

(***************************************************************************)
(* SpecLocks: the mutexes of one run.  A routine of a thread is the        *)
(* sequence of lock() calls, guard drops and file writes the code makes on *)
(* one path through it; a thread runs one routine at a time, and lock()    *)
(* waits while another thread holds the mutex.                             *)
(***************************************************************************)
Lock(l) == <<"lock", l>>
Unlock(l) == <<"unlock", l>>
\* writer.write_sample(sample), for the samples of the frames written
WriteSample == <<"io", "write_sample">>
\* WavWriter::create(&path, spec), writer.flush(), std::fs::remove_file(&path)
CreateFile == <<"io", "create">>
Flush == <<"io", "flush">>
RemoveFile == <<"io", "remove_file">>
\* drop(stream): returns once the callback thread is out of the callback
StopStream == <<"join", "callback">>

\* { let state = state_arc.lock(); <field>.lock() .. }: both guards dropped
\* at the end of the block or statement, the inner one first
WithStateField(field) == <<Lock("state"), Lock(field), Unlock(field), Unlock("state")>>

\* process_audio_chunk up to the branch on is_voice: push the frame, read
\* elapsed, read is_speaking
ClassifyFrame ==
    <<Lock("audio_chunks"), Unlock("audio_chunks")>>
    \o WithStateField("last_active_time")
    \o WithStateField("is_speaking")

\* handle_voice_detected: the reset, and past the grace period the flag
VoiceDetected(past_grace) ==
    WithStateField("last_active_time")
    \o (IF past_grace THEN WithStateField("is_speaking") ELSE <<>>)

\* write_trimmed_audio: read the padding, lock the buffer, and with a valid
\* range lock the writer and write; the guards are dropped at the return
WriteTrimmedAudio(valid_range) ==
    <<Lock("state"), Unlock("state"), Lock("audio_chunks")>>
    \o (IF valid_range
        THEN <<Lock("writer"), WriteSample, Unlock("writer")>>
        ELSE <<>>)
    \o <<Unlock("audio_chunks")>>

\* a handler that goes on to write without drop(state)
SilenceDetected_keeps_state(elapsed, speaking, valid_range) ==
    <<Lock("state"), Unlock("state")>>
    \o (IF ~elapsed THEN <<>>
        ELSE <<Lock("state"), Lock("is_speaking"), Unlock("is_speaking")>>
             \o (IF ~speaking THEN <<Unlock("state")>>
                 ELSE <<Lock("is_speaking"), Unlock("is_speaking")>>
                      \o WriteTrimmedAudio(valid_range) \o <<Unlock("state")>>))

\* handle_silence_detected: read silence_duration; once it has elapsed lock
\* the state and test is_speaking; if set, clear it, drop the state guard
\* and write the trimmed audio
SilenceDetected(elapsed, speaking, valid_range) ==
    <<Lock("state"), Unlock("state")>>
    \o (IF ~elapsed THEN <<>>
        ELSE <<Lock("state"), Lock("is_speaking"), Unlock("is_speaking")>>
             \o (IF ~speaking THEN <<Unlock("state")>>
                 ELSE <<Lock("is_speaking"), Unlock("is_speaking"), Unlock("state")>>
                      \o WriteTrimmedAudio(valid_range)))

\* the input callback for one chunk of one frame: the carry-over buffer is
\* locked for the whole callback
CallbackRoutines ==
    {<<Lock("data_buffer")>> \o ClassifyFrame \o VoiceDetected(past_grace)
        \o <<Unlock("data_buffer")>> : past_grace \in BOOLEAN}
    \cup
    {<<Lock("data_buffer")>> \o ClassifyFrame
        \o SilenceDetected(elapsed, speaking, valid_range)
        \o <<Unlock("data_buffer")>> :
            elapsed \in BOOLEAN, speaking \in BOOLEAN, valid_range \in BOOLEAN}

\* one read or write of the AutoRecordState under its mutex: the top of the
\* worker's loop, check_recording_state, the head of build_audio_stream,
\* handle_successful_recording, handle_paused_recording, finalize_recording
UnderState == <<Lock("state"), Unlock("state")>>

\* prepare_recording: the state guard lives to the end of the function, the
\* file is created under it
PrepareRoutine == <<Lock("state"), CreateFile, Unlock("state")>>

\* wait_for_audio_event(Silence), one iteration: check_recording_state, then
\* last_active_time read under the state lock
WaitSilenceRoutine == UnderState \o WithStateField("last_active_time")

\* RecordingSession::drop: the stream, then the writer locked and flushed,
\* then the state read, then the file removed if the run is stopped
TeardownRoutine(is_stopped) ==
    <<StopStream, Lock("writer"), Flush, Unlock("writer")>>
    \o UnderState
    \o (IF is_stopped THEN <<RemoveFile>> ELSE <<>>)

WorkerRoutines ==
    {UnderState, PrepareRoutine, WaitSilenceRoutine}
    \cup {TeardownRoutine(is_stopped) : is_stopped \in BOOLEAN}

\* start, pause, resume or stop_auto_record: the Recorder mutex (commands.rs),
\* then the state mutex for the transition
CommandRoutines ==
    {<<Lock("recorder"), Lock("state"), Unlock("state"), Unlock("recorder")>>}

Routines(t) ==
    CASE t = "callback" -> CallbackRoutines
      [] t = "worker" -> WorkerRoutines
      [] t = "command" -> CommandRoutines

SyncFrame == <<now, auto_record_state, state, current_sentence_index, is_speaking,
               last_active_time, config, worker, session, files, ret, events,
               sentences, naming, negotiation, manual, unobserved, trim>>

\* thread t enters one of its routines
Enter(t) ==
    /\ sync.todo[t] = <<>>
    /\ \E routine \in Routines(t) : sync' = [sync EXCEPT !.todo[t] = routine]
    /\ UNCHANGED SyncFrame

\* Mutex::lock: returns once the mutex is free
Acquire(t) ==
    /\ sync.todo[t] # <<>>
    /\ Head(sync.todo[t])[1] = "lock"
    /\ sync.held[Head(sync.todo[t])[2]] = "free"
    /\ sync' = [sync EXCEPT !.held[Head(sync.todo[t])[2]] = t,
                            !.todo[t] = Tail(sync.todo[t])]
    /\ UNCHANGED SyncFrame

\* the guard is dropped
Release(t) ==
    /\ sync.todo[t] # <<>>
    /\ Head(sync.todo[t])[1] = "unlock"
    /\ sync' = [sync EXCEPT !.held[Head(sync.todo[t])[2]] = "free",
                            !.todo[t] = Tail(sync.todo[t])]
    /\ UNCHANGED SyncFrame

\* drop(stream) returns: the callback thread is not inside the callback
StopStreamReturns(t) ==
    /\ sync.todo[t] # <<>>
    /\ Head(sync.todo[t]) = StopStream
    /\ sync.todo["callback"] = <<>>
    /\ sync' = [sync EXCEPT !.todo[t] = Tail(sync.todo[t])]
    /\ UNCHANGED SyncFrame

\* the file is written, created, flushed or removed
WriteFile(t) ==
    /\ sync.todo[t] # <<>>
    /\ Head(sync.todo[t])[1] = "io"
    /\ sync' = [sync EXCEPT !.todo[t] = Tail(sync.todo[t])]
    /\ UNCHANGED SyncFrame

NextLocks ==
    \/ \E t \in Threads : Enter(t)
    \/ \E t \in Threads : Acquire(t)
    \/ \E t \in Threads : Release(t)
    \/ \E t \in Threads : WriteFile(t)
    \/ StopStreamReturns("worker")

SpecLocks == Init /\ [][NextLocks]_vars

(***************************************************************************)
(* Properties.                                                             *)
(***************************************************************************)
\* the state the recorder's handle names, "None" when it holds none
Controller == IF auto_record_state = 0 THEN "None" ELSE state[auto_record_state]

\* a step that spawns the worker of run r: start_auto_record went through
Spawned(r) == worker[r].pc \in {"none", "exited"} /\ worker'[r].pc = "loop_top"

\* the state of every run but the one the handle names is left alone
OthersUnchanged == \A r \in Runs : r # auto_record_state => state'[r] = state[r]

\* a step of run r's input callback
CallbackStep(r) == session[r].stream = "playing" /\ session'[r].delivered > session[r].delivered

\* C1: RecordingState changes only along the four legal transitions (start
\* Idle -> Recording, pause Recording -> Paused, resume Paused -> Recording,
\* stop Recording|Paused -> Idle), each command changes it only along its
\* own transition, and a command called in its legal source state returns Ok
\* and leaves exactly its target state.
LegalTransitions ==
    {<<"Idle", "Recording">>, <<"Recording", "Paused">>, <<"Paused", "Recording">>,
     <<"Recording", "Idle">>, <<"Paused", "Idle">>}

C1_LegalTransitions ==
    [][/\ \A r \in Runs :
            state'[r] # state[r] => <<state[r], state'[r]>> \in LegalTransitions
       /\ \A r \in Runs :
            Spawned(r) => state[r] = "Idle" /\ state'[r] = "Recording" /\ ret' = "Ok"
       /\ PauseAutoRecord =>
            /\ OthersUnchanged
            /\ Controller = "Recording" => Controller' = "Paused" /\ ret' = "Ok"
            /\ Controller' # Controller => Controller = "Recording"
       /\ ResumeAutoRecord =>
            /\ OthersUnchanged
            /\ Controller = "Paused" => Controller' = "Recording" /\ ret' = "Ok"
            /\ Controller' # Controller => Controller = "Paused"
       /\ StopAutoRecord =>
            /\ OthersUnchanged
            /\ Controller \in {"Recording", "Paused"} =>
                  state'[auto_record_state] = "Idle" /\ ret' = "Ok"
            /\ state' # state => Controller \in {"Recording", "Paused"}
      ]_vars

\* C1 witness: a pause has succeeded on a run that start put into Recording.
C1_Witness == Controller = "Paused" /\ ret = "Ok"

\* C2: pause, resume or stop called in a state that is not its legal source
\* state (no run, or a run in another state) returns an error and leaves every
\* RecordingState unchanged.
C2_IllegalCallFails ==
    [][/\ PauseAutoRecord /\ Controller # "Recording" => ret' # "Ok" /\ state' = state
       /\ ResumeAutoRecord /\ Controller # "Paused" => ret' # "Ok" /\ state' = state
       /\ StopAutoRecord /\ Controller \notin {"Recording", "Paused"} =>
             ret' # "Ok" /\ state' = state
      ]_vars

\* C2 witness: resume was refused on a run that is Idle.
C2_Witness == Controller = "Idle" /\ ret = "Can only resume from Paused state"

\* C3: start is accepted only when the controller is Idle (or there is none):
\* while a run is Recording or Paused no start begins a second run.
C3_StartOnlyWhenIdle ==
    [][(\E r \in Runs : Spawned(r)) => Controller \in {"None", "Idle"}]_vars

\* C4: once the session of a sentence that was interrupted by pause is torn
\* down (the worker is in handle_paused_recording), the partial file is gone.
C4_PauseRemovesPartialFile ==
    \A r \in Runs :
        worker[r].pc = "paused" =>
            ~files[SentencePath(r, current_sentence_index[r])].exists

\* C5: when stop comes while a sentence is being recorded, the run stays Idle
\* for the rest of the session, and the teardown of a session that reads Idle
\* removes the sentence's file.
C5_StopRemovesPartialFile ==
    [][\A r \in Runs :
          /\ (session[r].stream = "playing" /\ state[r] = "Idle" /\ session'[r].writer)
                => state'[r] = "Idle"
          /\ (worker[r].pc = "drop_file" /\ worker'[r].pc # "drop_file"
              /\ state[r] = "Idle")
                => ~files'[session[r].path].exists
      ]_vars

\* C5 witness: record_sentence has returned RecordingStopped and the file of
\* the sentence it was recording is not on disk.
C5_Witness ==
    /\ worker[1].pc = "finalize"
    /\ worker[1].result = "RecordingStopped"
    /\ ~files[SentencePath(1, current_sentence_index[1])].exists

\* a buffer of N silence frames, M >= 1 voice frames, K silence frames
FirstVoice(chunks) == CHOOSE i \in VoiceIdx(chunks) : \A j \in VoiceIdx(chunks) : i <= j
LastVoice(chunks) == CHOOSE i \in VoiceIdx(chunks) : \A j \in VoiceIdx(chunks) : i >= j
SilenceVoiceSilence(chunks) ==
    /\ VoiceIdx(chunks) # {}
    /\ VoiceIdx(chunks) = FirstVoice(chunks)..LastVoice(chunks)
LeadingSilence(chunks) == FirstVoice(chunks) - 1
TrailingSilence(chunks) == Len(chunks) - LastVoice(chunks)
TrimP == PaddingFrames(trim.silence_padding, trim.sample_rate)

\* the last `lead` frames of the leading silence, the voice frames, the first
\* `trail` frames of the trailing silence
Padded(chunks, lead, trail) ==
    SubSeq(chunks, FirstVoice(chunks) - lead, LastVoice(chunks) + trail)

\* C6 as stated: for N silence, M >= 1 voice, K silence frames and P frames of
\* padding the output is min(P,N) silence frames, the M voice frames,
\* min(P,K) silence frames.
C6_TrimPadsP ==
    trim.called /\ SilenceVoiceSilence(trim.chunks) =>
        trim.written = Padded(trim.chunks,
                              Min(TrimP, LeadingSilence(trim.chunks)),
                              Min(TrimP, TrailingSilence(trim.chunks)))

\* C6 amended: the output is min(P+1,N) silence frames, the M voice frames,
\* min(P+1,K) silence frames, in buffer order.
C6_TrimPadsPPlusOne ==
    trim.called /\ SilenceVoiceSilence(trim.chunks) =>
        trim.written = Padded(trim.chunks,
                              Min(TrimP + 1, LeadingSilence(trim.chunks)),
                              Min(TrimP + 1, TrailingSilence(trim.chunks)))

\* C6 witness: trimming ran on a buffer with more than P+1 silence frames on
\* both sides of the voice frames.
C6_Witness ==
    /\ trim.called
    /\ SilenceVoiceSilence(trim.chunks)
    /\ LeadingSilence(trim.chunks) > TrimP + 1
    /\ TrailingSilence(trim.chunks) > TrimP + 1
    /\ trim.written # <<>>

\* C7: whenever record_sentence returns success, the trimmed utterance has
\* been written to the file before the stream is closed.
C7_SuccessHasUtterance ==
    \A r \in Runs :
        worker[r].pc = "drop_stream" /\ worker[r].result = "Ok" =>
            files[session[r].path].data # <<>>

\* the frame a one-frame callback pushed
Pushed(r) == session'[r].audio_chunks[Len(session'[r].audio_chunks)]
OneFrame(r) == Len(session'[r].audio_chunks) = Len(session[r].audio_chunks) + 1

\* C8: a silence frame that finds is_speaking set and silence_duration elapsed
\* clears is_speaking and writes the trimmed audio; any other silence frame, so
\* every further one until a voice frame sets is_speaking again, writes nothing.
C8_SilenceWritesOnce ==
    [][\A r \in Runs :
          CallbackStep(r) /\ OneFrame(r) /\ ~Pushed(r).is_voice =>
             IF is_speaking[r] /\ now - last_active_time[r] >= config[r].silence_duration
             THEN /\ ~is_speaking'[r]
                  /\ SLen(files'[session[r].path].data) > SLen(files[session[r].path].data)
             ELSE /\ is_speaking'[r] = is_speaking[r]
                  /\ files' = files
      ]_vars

\* C8 witness: voice, then the silence frame that ended the utterance and
\* wrote voice and silence frame, then one more silence frame, not written.
C8_Witness ==
    /\ Len(session[1].audio_chunks) = 3
    /\ session[1].audio_chunks[1].is_voice
    /\ ~session[1].audio_chunks[2].is_voice
    /\ ~session[1].audio_chunks[3].is_voice
    /\ ~is_speaking[1]
    /\ files[session[1].path].data = Flatten(SubSeq(session[1].audio_chunks, 1, 2))

\* the audio time a run of n frames spans is below the 200 ms grace period
ShorterThanGrace(n, sample_rate) ==
    n * adjusted_chunk_size(sample_rate) * 1000 < GraceMs * sample_rate

\* the buffer holds one burst of voice frames, shorter than 200 ms and ended
\* by a silence frame
ShortBurstEnded(chunks, sample_rate) ==
    /\ SilenceVoiceSilence(chunks)
    /\ TrailingSilence(chunks) >= 1
    /\ ShorterThanGrace(Cardinality(VoiceIdx(chunks)), sample_rate)

\* C9: a burst of voice frames lasting less than 200 ms sends no voice
\* signal: while the frames of a session are one such burst, ended by a
\* silence frame, no signal is pending and the worker has not received one.
C9_ShortBurstIgnored ==
    \A r \in Runs :
        (session[r].stream = "playing"
         /\ ShortBurstEnded(session[r].audio_chunks, config[r].sample_rate)) =>
            /\ session[r].voice_rx = 0
            /\ worker[r].pc # "wait_silence"
            /\ worker[r].result # "Ok"

\* a is a prefix of b
IsPrefix(a, b) == Len(a) <= Len(b) /\ SubSeq(b, 1, Len(a)) = a

\* C10: after every callback the frames of the utterance buffer followed by
\* the carry-over buffer are the delivered samples in order, and the frames
\* already in the buffer are still there, in place, with their tags.
C10_NoSampleLost ==
    [][\A r \in Runs :
          CallbackStep(r) =>
             /\ SCat(Flatten(session'[r].audio_chunks), session'[r].data_buffer)
                   = Interval(0, session'[r].delivered)
             /\ IsPrefix(session[r].audio_chunks, session'[r].audio_chunks)
      ]_vars

\* C10 witness: at 8 kHz, where a chunk is split in two frames, frames are in
\* the buffer and samples are carried over.
C10_Witness ==
    /\ config[1].sample_rate = 8000
    /\ Len(session[1].audio_chunks) >= 2
    /\ session[1].data_buffer # <<>>

\* the events of a trace that are "sentence finished"
IsStart(e) == e.name = "auto-record-start-sentence"
IsFinish(e) == e.name = "auto-record-finish-sentence"
IsComplete(e) == e.name = "auto-record-complete"
FinishedBefore(ev, k) == Cardinality({j \in 1..(k - 1) : IsFinish(ev[j])})

\* sentences are started and finished in list order: each event of a sentence
\* is for the sentence after the ones finished so far, and the index counts
\* the finished ones
InListOrder(r) ==
    /\ \A k \in 1..Len(events[r]) :
          ~IsComplete(events[r][k]) =>
              events[r][k].id = sentences[r][FinishedBefore(events[r], k) + 1].id
    /\ FinishedBefore(events[r], Len(events[r]) + 1) = current_sentence_index[r]

\* C11: the sentence index changes only by one, in handle_successful_recording
\* (and a new run starts at 0); leaving the paused wait retries the same
\* sentence when resumed and leaves the loop when stopped; sentences are
\* finished in list order, none skipped, none twice.
C11_IndexAdvancesOnSuccess ==
    [][\A r \in Runs :
          /\ current_sentence_index'[r] # current_sentence_index[r] =>
                \/ Spawned(r) /\ current_sentence_index'[r] = 0
                \/ /\ worker[r].pc = "success"
                   /\ current_sentence_index'[r] = current_sentence_index[r] + 1
          /\ (worker[r].pc = "success" /\ worker'[r].pc # "success") =>
                current_sentence_index'[r] = current_sentence_index[r] + 1
          /\ (worker[r].pc = "paused" /\ worker'[r].pc # "paused") =>
                \/ state[r] = "Recording" /\ worker'[r].pc = "loop_top"
                \/ state[r] = "Idle" /\ worker'[r].pc = "finalize"
          /\ InListOrder(r)'
      ]_vars

\* C11 witness: sentence 1 was started, paused and resumed, started again and
\* finished.
C11_Witness ==
    /\ Len(events[1]) >= 3
    /\ IsStart(events[1][1]) /\ events[1][1].id = 1
    /\ IsStart(events[1][2]) /\ events[1][2].id = 1
    /\ IsFinish(events[1][3]) /\ events[1][3].id = 1
    /\ current_sentence_index[1] = 1

Completes(r) == Cardinality({k \in 1..Len(events[r]) : IsComplete(events[r][k])})

\* C12: a run whose worker has left the sentence loop and ended, for whatever
\* reason, is Idle and has emitted "auto-record complete" exactly once; while
\* the worker is still running nothing of the kind has been emitted.
C12_RunEndsIdleCompleteOnce ==
    \A r \in Runs :
        /\ worker[r].pc = "exited" => state[r] = "Idle" /\ Completes(r) = 1
        /\ worker[r].pc # "exited" => Completes(r) = 0

\* C12 witness: a run that ended before its first sentence was finished (by
\* stop, by pause then stop, or by an error), Idle, complete emitted.
C12_Witness ==
    /\ worker[1].pc = "exited"
    /\ state[1] = "Idle"
    /\ events[1] = <<StartSentence(1), Complete>>

\* the trace of a run of n sentences that nothing interrupts
UninterruptedTrace(n) ==
    [k \in 1..(2 * n + 1) |->
        IF k = 2 * n + 1 THEN Complete
        ELSE IF k % 2 = 1 THEN StartSentence((k + 1) \div 2)
        ELSE FinishSentence(k \div 2)]

WellFormed(ev) ==
    /\ \A k \in 1..Len(ev) :
          IsFinish(ev[k]) =>
              \E j \in 1..(k - 1) :
                  /\ IsStart(ev[j]) /\ ev[j].id = ev[k].id
                  /\ \A i \in (j + 1)..(k - 1) : ev[i].id = ev[k].id
    /\ \A k \in 1..Len(ev) : IsComplete(ev[k]) => k = Len(ev)

\* C13: the events of a run are well-formed: each "sentence finished" follows
\* a "sentence started" of the same id with no event of another sentence in
\* between, "auto-record complete" is the last event; a run that ended with
\* all its n sentences finished and none retried emitted exactly started 1,
\* finished 1, .., started n, finished n, complete.
C13_EventTraceWellFormed ==
    \A r \in Runs :
        /\ WellFormed(events[r])
        /\ worker[r].pc = "exited" =>
              events[r] # <<>> /\ IsComplete(events[r][Len(events[r])])
        /\ (/\ worker[r].pc = "exited"
            /\ current_sentence_index[r] = config[r].sentences
            /\ Starts(r) = config[r].sentences)
              => events[r] = UninterruptedTrace(config[r].sentences)

\* C13 witness: a run ended with every sentence finished at its first attempt.
C13_Witness ==
    /\ worker[1].pc = "exited"
    /\ current_sentence_index[1] = config[1].sentences
    /\ Starts(1) = config[1].sentences
    /\ Len(events[1]) = 2 * config[1].sentences + 1

Waiting(r) == worker[r].pc \in {"wait_voice", "wait_silence"}

\* C14: every poll iteration of the wait for voice or for silence reads the
\* state first: an iteration that finds the run Paused returns
\* RecordingPaused, one that finds it Idle returns RecordingStopped, whatever
\* the audio event it waits for; no other iteration returns either.
C14_PollReadsState ==
    [][\A r \in Runs :
          /\ (Waiting(r) /\ state[r] = "Paused" /\ worker'[r] # worker[r]) =>
                worker'[r] = [pc |-> "drop_stream", result |-> "RecordingPaused"]
          /\ (Waiting(r) /\ state[r] = "Idle" /\ worker'[r] # worker[r]) =>
                worker'[r] = [pc |-> "drop_stream", result |-> "RecordingStopped"]
          /\ (worker'[r].result \in {"RecordingPaused", "RecordingStopped"}
              /\ worker'[r].result # worker[r].result) =>
                Waiting(r) /\ state[r] # "Recording"
      ]_vars

\* C14 witness: the wait for voice returned RecordingPaused although a voice
\* signal was pending.
C14_Witness ==
    /\ worker[1].pc = "drop_stream"
    /\ worker[1].result = "RecordingPaused"
    /\ session[1].voice_rx = 1

LiveStreams == {r \in Runs : session[r].stream # "none"}
LiveWriters == {r \in Runs : session[r].writer}
InRecordSentence(r) ==
    worker[r].pc \in {"build", "play", "wait_voice", "wait_silence",
                      "drop_stream", "drop_file"}

\* C15: at every moment at most one capture stream and at most one file
\* writer are live, and a worker that is not inside record_sentence holds
\* neither.
C15_OneStreamOneWriter ==
    /\ Cardinality(LiveStreams) <= 1
    /\ Cardinality(LiveWriters) <= 1
    /\ \A r \in Runs : ~InRecordSentence(r) => session[r] = NoSession

\* C16: when record_sentence has returned an error after its file was
\* created (the stream could not be built, or could not be started), stream
\* and writer are closed and the file is gone.
C16_ErrorPathRemovesFile ==
    \A r \in Runs :
        (worker[r].pc = "finalize" /\ worker[r].result = "Error") =>
            /\ session[r] = NoSession
            /\ ~files[SentencePath(r, current_sentence_index[r])].exists

\* record_sentence has returned an error other than RecordingPaused
Failed(r) == worker[r].result \in {"Error", "RecordingStopped"}

\* C17: once record_sentence has returned an error other than
\* RecordingPaused the worker only tears the session down and finalizes: it
\* does not go back into the loop, starts no sentence, keeps the index, and the
\* files of the sentences before the current one are left as they are.
C17_ErrorEndsRun ==
    [][\A r \in Runs :
          Failed(r) =>
             /\ worker'[r].pc \in {"drop_stream", "drop_file", "finalize", "exited"}
             /\ current_sentence_index'[r] = current_sentence_index[r]
             /\ Starts(r)' = Starts(r)
             /\ \A p \in Paths :
                   p < SentencePath(r, current_sentence_index[r]) => files'[p] = files[p]
      ]_vars

\* C17 witness: the second sentence failed, the run is about to finalize and
\* the file of the first sentence is on disk with its audio.
C17_Witness ==
    /\ worker[1].pc = "finalize"
    /\ worker[1].result = "Error"
    /\ current_sentence_index[1] = 1
    /\ files[SentencePath(1, 0)].exists
    /\ files[SentencePath(1, 0)].data # <<>>

\* C18: a start that fails to resolve the audio configuration returns the
\* error and changes nothing else: no worker is spawned, no stream opened, no
\* file created, no RecordingState changed, and the recorder's handle and the
\* run it names are as before.
C18_ConfigFailureChangesNothing ==
    [][(ret' \in ConfigErrors /\ ret' # ret) =>
          UNCHANGED <<auto_record_state, state, current_sentence_index, config,
                      worker, session, files, events, sentences>>
      ]_vars

\* C18 witness: a start failed while the recorder held a paused run; handle,
\* state and worker of that run are as they were.
C18_Witness ==
    /\ ret \in ConfigErrors
    /\ auto_record_state = 1
    /\ state[1] = "Paused"
    /\ worker[1].pc = "paused"

\* C19: the sentences of a run that have completed are marked recorded, the
\* others are not.
C19_CompletedMarkedRecorded ==
    \A r \in Runs :
        \A i \in 1..Len(sentences[r]) :
            sentences[r][i].recorded <=> i <= current_sentence_index[r]

\* C20: the path in the "sentence finished" event of a sentence is the path
\* of the file that was created for it.
C20_EventCarriesCreatedPath ==
    naming.stage = "recorded" => naming.emitted = naming.created

\* the files of the sentences run r has completed so far
CompletedPaths(r) == {SentencePath(r, i - 1) : i \in 1..current_sentence_index[r]}
AllCompleted(r) ==
    worker[r].pc = "exited" /\ current_sentence_index[r] = config[r].sentences

\* C21: while a run goes on, no step changes the file of a sentence the run
\* has already completed (it is not overwritten, truncated or removed), and a
\* run that ends with all its n sentences completed leaves n files, one per
\* sentence.
C21_OneFilePerSentence ==
    [][\A r \in Runs :
          /\ worker[r].pc \notin {"none", "exited"} =>
                \A p \in CompletedPaths(r) : files'[p] = files[p]
          /\ AllCompleted(r)' =>
                /\ \A p \in CompletedPaths(r)' : files'[p].exists
                /\ Cardinality(CompletedPaths(r)') = config'[r].sentences
      ]_vars

\* the frame sizes C22 lists
ChunkSizes ==
    (8000 :> 256) @@ (16000 :> 512) @@ (32000 :> 1024) @@ (48000 :> 1536)
    @@ (44100 :> 1536)

\* C22: the frame size computed for a negotiated rate is 256, 512, 1024, 1536
\* and 1536 for the rates 8000, 16000, 32000, 48000 and 44100.
C22_ChunkSizes ==
    negotiation.stage = "built" =>
        /\ negotiation.sample_rate \in DOMAIN ChunkSizes
        /\ negotiation.chunk_size = ChunkSizes[negotiation.sample_rate]

\* C22 witness: the frame size of 44100 Hz, where round(rate / 31.25) = 1411
\* is not a multiple of 256, has been computed.
C22_Witness ==
    /\ negotiation.stage = "built"
    /\ negotiation.sample_rate = 44100
    /\ negotiation.chunk_size = 1536

InRange(rate, ranges) ==
    \E k \in 1..Len(ranges) : ranges[k][1] <= rate /\ rate <= ranges[k][2]
Supported(ranges) == {i \in 1..Len(PreferredRates) : InRange(PreferredRates[i], ranges)}
FirstPreferred(ranges) ==
    PreferredRates[CHOOSE i \in Supported(ranges) : \A j \in Supported(ranges) : i <= j]

\* C23: negotiation on a device that lists its ranges fails iff no rate of
\* the preference list lies within any range; otherwise the negotiated rate
\* is the first rate of the preference list that lies within a range.
C23_FirstPreferredRate ==
    (negotiation.stage \in {"configured", "failed"}
     /\ negotiation.device.supported = "Ok") =>
        /\ negotiation.stage = "failed" <=> Supported(negotiation.device.ranges) = {}
        /\ negotiation.stage = "configured" =>
              negotiation.sample_rate = FirstPreferred(negotiation.device.ranges)

\* a manual recording is in progress
InProgress == manual.writer # NoWriter

\* C24: start_recording fails with "Recording is already in progress" iff a
\* manual recording is active, stop_recording fails with "No recording in
\* progress" iff none is; a call that fails leaves the in-progress status as
\* it was; a filename containing ".." is rejected with no file and no stream
\* opened.
C24_ManualStartStop ==
    [][/\ (\E filename \in Filenames, outcome \in Outcomes :
               StartRecording(filename, outcome)) =>
            /\ ret' = "Recording is already in progress" <=> InProgress
            /\ ret' # "Recording started" => InProgress' = InProgress
       /\ \A filename \in {f \in Filenames : contains(f, <<".", ".">>)} :
            (\E outcome \in Outcomes : StartRecording(filename, outcome)) =>
                /\ ret' # "Recording started"
                /\ manual'.opened = manual.opened
                /\ manual'.stream = manual.stream
       /\ StopRecording =>
               /\ ret' = "No recording in progress" <=> ~InProgress
               /\ ret' # "Recording stopped" => InProgress' = InProgress
      ]_vars

\* C24 witness: a recording is in progress and a second start was refused.
C24_Witness == InProgress /\ ret = "Recording is already in progress"

\* C25: in every teardown of a session the stream is stopped before the
\* writer is flushed and before the file is deleted, and the session's
\* callback runs no more once the writer is flushed: it writes nothing to the
\* file after the flush and nothing while the file is deleted.
C25_StreamStopsBeforeFlush ==
    [][\A r \in Runs :
          /\ session'[r].flushed => session'[r].stream = "none"
          /\ (worker[r].pc = "drop_file" /\ worker'[r].pc # "drop_file") =>
                session[r].stream = "none" /\ session[r].flushed
          /\ CallbackStep(r) => ~session[r].flushed /\ worker[r].pc # "drop_file"
      ]_vars

\* C25 witness: a session whose callback wrote the utterance is being torn
\* down: stream stopped, writer flushed, the file not yet looked at.
C25_Witness ==
    /\ worker[1].pc = "drop_file"
    /\ session[1].stream = "none"
    /\ session[1].flushed
    /\ files[session[1].path].data # <<>>

\* start and end of the speech as C26 gives them, 0-based: one frame before
\* the first voice frame and one after the last, clamped into the buffer
SpeechStart(chunks) == Max(FirstVoice(chunks) - 1 - 1, 0)
SpeechEnd(chunks) == Min(LastVoice(chunks) - 1 + 1, Len(chunks) - 1)

\* C26: for a buffer with at least one voice frame, trimming writes exactly
\* the frames from max(0, start_index - P) to min(len - 1, end_index + P),
\* each once and in buffer order.
C26_TrimWritesContiguousRange ==
    (trim.called /\ VoiceIdx(trim.chunks) # {}) =>
        trim.written =
            SubSeq(trim.chunks,
                   Max(0, SpeechStart(trim.chunks) - TrimP) + 1,
                   Min(Len(trim.chunks) - 1, SpeechEnd(trim.chunks) + TrimP) + 1)

\* C26 witness: trimming ran with a padding of at least one frame on a
\* buffer whose voice frames have silence between them.
C26_Witness ==
    /\ trim.called
    /\ VoiceIdx(trim.chunks) # {}
    /\ ~SilenceVoiceSilence(trim.chunks)
    /\ TrimP >= 1
    /\ trim.written # <<>>

\* C27: on every buffer, the empty one and one without a voice frame
\* included, trimming takes no slice outside the buffer (no panic), what it
\* writes are frames of the buffer, and on the empty buffer, where no valid
\* range exists, it writes nothing.
C27_TrimNeverPanics ==
    trim.called =>
        /\ ~trim.panicked
        /\ \E a, b \in 0..Len(trim.chunks) : trim.written = SubSeq(trim.chunks, a + 1, b)
        /\ trim.chunks = <<>> => trim.written = <<>>

\* C27 witness: trimming was called on the empty buffer and returned.
C27_Witness == trim.called /\ trim.chunks = <<>> /\ ~trim.panicked

\* C28: every voice frame resets last_active_time to the current time; it
\* sets is_speaking and leaves a voice signal in the channel iff the time
\* since the previous reset, as it was before this one, is at least 200 ms,
\* and changes neither otherwise.
C28_VoiceFrameResetsAndSignals ==
    [][\A r \in Runs :
          (CallbackStep(r) /\ OneFrame(r) /\ Pushed(r).is_voice) =>
             /\ last_active_time'[r] = now
             /\ IF now - last_active_time[r] >= GraceMs
                THEN is_speaking'[r] /\ session'[r].voice_rx = 1
                ELSE /\ is_speaking'[r] = is_speaking[r]
                     /\ session'[r].voice_rx = session[r].voice_rx
      ]_vars

\* C28 witness: a voice frame came 200 ms or more after the previous reset:
\* the time is reset, is_speaking is set after a silence frame had not
\* changed it, and the signal is pending.
C28_Witness ==
    /\ Len(session[1].audio_chunks) = 2
    /\ ~session[1].audio_chunks[1].is_voice
    /\ session[1].audio_chunks[2].is_voice
    /\ last_active_time[1] = now
    /\ is_speaking[1]
    /\ session[1].voice_rx = 1

\* C29: once the state is Paused or Idle the callback of the session
\* processes at most one further frame: it does not append a second frame
\* to the utterance buffer, nor write to the file, while the state is not
\* Recording.
C29_CallbackObservesState ==
    \A r \in Runs : unobserved[r] <= 1

\* the mutexes thread t holds
HeldBy(t) == {l \in Locks : sync.held[l] = t}

\* C30: whenever the callback writes samples to the WAV writer it holds no
\* lock on shared state: not the carry-over buffer, not the utterance
\* buffer, not the writer, not the state.
C30_NoFileWriteUnderLock ==
    (sync.todo["callback"] # <<>> /\ Head(sync.todo["callback"]) = WriteSample) =>
        HeldBy("callback") = {}

\* a step of run r's callback that processes one voice frame, the grace
\* period past: the frame that sets is_speaking and sends the signal
OnsetStep(r) ==
    /\ CallbackStep(r) /\ OneFrame(r) /\ Pushed(r).is_voice
    /\ now - last_active_time[r] >= GraceMs

\* C31: the voice channel holds at most one signal; the callback's send goes
\* through whether or not a signal is pending, and leaves exactly one pending
\* (a second one is dropped); and a pending signal is enough: the worker's
\* wait for voice returns in the end.
C31_SingleSlotSignal ==
    /\ [](\A r \in Runs : session[r].voice_rx <= 1)
    /\ [][\A r \in Runs :
            OnsetStep(r) => is_speaking'[r] /\ session'[r].voice_rx = 1]_vars
    /\ \A r \in Runs :
          (session[r].voice_rx = 1 /\ worker[r].pc = "wait_voice")
              ~> (worker[r].pc # "wait_voice")

\* C31 witness: in the first session of a run a voice frame set is_speaking
\* (the silence frame after it wrote the file), the worker has not polled
\* since, and a second voice frame set is_speaking again: its signal found
\* the slot taken and was dropped.
C31_Witness ==
    /\ events[1] = <<StartSentence(1)>>
    /\ worker[1].pc = "wait_voice"
    /\ Len(session[1].audio_chunks) = 3
    /\ session[1].audio_chunks[1].is_voice
    /\ ~session[1].audio_chunks[2].is_voice
    /\ session[1].audio_chunks[3].is_voice
    /\ files[session[1].path].data # <<>>
    /\ is_speaking[1]
    /\ session[1].voice_rx = 1

\* C32 as stated: the utterance buffer holds no frame shorter than the size
\* the classifier's frames are cut to, and a callback leaves no partial frame
\* behind: samples short of a frame are dropped.
C32_ShortFrameDiscarded ==
    \A r \in Runs :
        session[r].stream = "playing" =>
            /\ \A i \in 1..Len(session[r].audio_chunks) :
                  SLen(session[r].audio_chunks[i].chunk)
                      >= adjusted_chunk_size(config[r].sample_rate)
            /\ session[r].data_buffer = <<>>

\* C32 amended: nothing is discarded and nothing padded.  The samples of a
\* callback short of a chunk wait in the carry-over buffer, fewer than a
\* chunk of them; every piece of a drained chunk is in the utterance buffer,
\* none longer than the size frames are cut to, shorter ones included; buffer
\* and carry-over together hold as many samples as were delivered.
C32_ShortFrameKept ==
    \A r \in Runs :
        session[r].stream = "playing" =>
            /\ SLen(session[r].data_buffer) < get_chunk_size(config[r].sample_rate)
            /\ \A i \in 1..Len(session[r].audio_chunks) :
                  SLen(session[r].audio_chunks[i].chunk)
                      \in 1..adjusted_chunk_size(config[r].sample_rate)
            /\ SLen(Flatten(session[r].audio_chunks)) + SLen(session[r].data_buffer)
                  = session[r].delivered

\* C32 witness: at 44.1 kHz, where a chunk of 1536 samples is shorter than
\* the 4234 a frame is cut to, such a frame is in the utterance buffer with
\* its tag, and samples short of the next chunk are carried over.
C32_Witness ==
    /\ config[1].sample_rate = 44100
    /\ session[1].stream = "playing"
    /\ Len(session[1].audio_chunks) >= 1
    /\ SLen(session[1].audio_chunks[1].chunk) < adjusted_chunk_size(44100)
    /\ session[1].data_buffer # <<>>

\* C33: last_active_time of a run never moves backwards, and is_speaking of a
\* run falls from true to false only in a callback step that processes a
\* silence frame at least silence_duration after the last reset of
\* last_active_time, the last voice frame.  (A step that spawns a worker
\* makes a new AutoRecordState, with fields of its own.)
C33_MonotoneActivity ==
    [][\A r \in Runs :
          /\ last_active_time'[r] >= last_active_time[r]
          /\ (is_speaking[r] /\ ~is_speaking'[r] /\ ~Spawned(r)) =>
                /\ CallbackStep(r) /\ OneFrame(r) /\ ~Pushed(r).is_voice
                /\ now - last_active_time[r] >= config[r].silence_duration
                /\ last_active_time'[r] = last_active_time[r]
      ]_vars

\* C33 witness: is_speaking has fallen in a session: the voice frame that set
\* it and the silence frame that cleared it are in the buffer, silence_duration
\* apart or more.
C33_Witness ==
    /\ session[1].stream = "playing"
    /\ Len(session[1].audio_chunks) = 2
    /\ session[1].audio_chunks[1].is_voice
    /\ ~session[1].audio_chunks[2].is_voice
    /\ ~is_speaking[1]
    /\ files[session[1].path].data # <<>>
    /\ now - last_active_time[1] >= config[1].silence_duration

\* C34: in a session the file is written at most once: a callback step that
\* writes to the file of its session finds it as prepare_recording made it,
\* empty.
C34_TrimmedWrittenOnce ==
    [][\A r \in Runs :
          (CallbackStep(r)
           /\ SLen(files'[session[r].path].data) > SLen(files[session[r].path].data))
              => files[session[r].path].data = <<>>
      ]_vars

\* C35: when the worker begins an attempt at a sentence (it is about to call
\* prepare_recording) is_speaking of its run is false, and the file of a
\* session is written only once a voice frame is in that session's buffer.
C35_SpeakingFalseAtStart ==
    \A r \in Runs :
        /\ worker[r].pc = "prepare" => ~is_speaking[r]
        /\ (session[r].stream = "playing" /\ files[session[r].path].data # <<>>) =>
              VoiceIdx(session[r].audio_chunks) # {}

\* C36: a worker that finds its run Paused at the top of the sentence loop
\* begins no session: it emits no "sentence started" and does not go on to
\* prepare_recording.
C36_NoSessionWhilePaused ==
    [][\A r \in Runs :
          (worker[r].pc = "loop_top" /\ state[r] = "Paused") =>
              /\ worker'[r].pc # "prepare"
              /\ events'[r] = events[r]
      ]_vars

\* C37: when the worker emits "sentence finished" for a sentence, the file
\* of that sentence is on disk.
C37_FinishedFileExists ==
    [][\A r \in Runs :
          (worker[r].pc = "success" /\ Len(events'[r]) > Len(events[r])) =>
              files[SentencePath(r, current_sentence_index[r])].exists
      ]_vars

\* the thread that thread t is waiting for: the holder of the mutex t is
\* about to lock, or the callback thread whose return drop(stream) awaits
Blockers(t) ==
    IF sync.todo[t] = <<>> THEN {}
    ELSE IF Head(sync.todo[t])[1] = "lock"
    THEN {sync.held[Head(sync.todo[t])[2]]} \ {"free"}
    ELSE IF Head(sync.todo[t]) = StopStream /\ sync.todo["callback"] # <<>>
    THEN {"callback"}
    ELSE {}

\* the threads t waits for, at first hand or through others
WaitsFor(t) ==
    LET Step(S) == S \cup UNION {Blockers(u) : u \in S}
    IN  Step(Step(Blockers(t)))

\* an order of the mutexes: outer ones first
Rank(l) ==
    CASE l \in {"recorder", "data_buffer"} -> 0
      [] l = "audio_chunks" -> 1
      [] l = "writer" -> 2
      [] l = "state" -> 3
      [] OTHER -> 4

\* C38: no thread ever waits for itself, at first hand or through other
\* threads (no deadlock of callback, worker and command callers), and every
\* thread takes its mutexes in one order: a mutex is locked only by a thread
\* that holds none of the same or a later rank.
C38_NoDeadlock ==
    \A t \in Threads :
        /\ t \notin WaitsFor(t)
        /\ (sync.todo[t] # <<>> /\ Head(sync.todo[t])[1] = "lock") =>
              \A l \in HeldBy(t) : Rank(l) < Rank(Head(sync.todo[t])[2])

\* C38 witness: the callback holds the state mutex inside
\* handle_silence_detected, the worker waits for it, and a command that
\* holds the Recorder mutex waits for it too.
C38_Witness ==
    /\ sync.held["state"] = "callback"
    /\ sync.held["data_buffer"] = "callback"
    /\ Blockers("worker") = {"callback"}
    /\ sync.held["recorder"] = "command"
    /\ Blockers("command") = {"callback"}

\* the worker of run r has left run_auto_record: no session, no stream, and
\* "auto-record complete" the last thing it emitted
Finished(r) ==
    /\ worker[r].pc = "exited"
    /\ session[r] = NoSession
    /\ events[r] # <<>>
    /\ IsComplete(events[r][Len(events[r])])

\* C39: once a run is stopped (its state is Idle while its worker is alive)
\* the worker leaves the loop, closes its stream and emits "auto-record
\* complete", with the worker thread scheduled fairly and the device free to
\* deliver frames or not.
C39_StopEndsWorker ==
    \A r \in Runs :
        (state[r] = "Idle" /\ worker[r].pc \notin {"none", "exited"}) ~> Finished(r)

\* C39 witness: the last command was a stop that succeeded (it returned Ok
\* and took the handle) before the list was done, and the worker has
\* finished.
C39_Witness ==
    /\ ret = "Ok"
    /\ auto_record_state = 0
    /\ current_sentence_index[1] < config[1].sentences
    /\ Finished(1)

\* run r's worker waits in record_sentence with the voice signal sent (still
\* pending, or received already), k frames in the session's buffer, and the
\* clock of the model reaches silence_duration past the last reset
VoiceSignalled(r, k) ==
    /\ state[r] = "Recording"
    /\ session[r].stream = "playing"
    /\ \/ worker[r].pc = "wait_voice" /\ session[r].voice_rx = 1
       \/ worker[r].pc = "wait_silence"
    /\ Len(session[r].audio_chunks) = k
    /\ last_active_time[r] + config[r].silence_duration <= MaxTime

\* a voice frame was processed after the first k frames of run r's session
VoiceAfter(r, k) ==
    \E j \in (k + 1)..Len(session[r].audio_chunks) : session[r].audio_chunks[j].is_voice

\* C40: once the voice signal of a session is sent, then, unless the state
\* leaves Recording or a later voice frame arrives, record_sentence returns
\* Ok and the run advances to the next sentence; the worker thread is
\* scheduled fairly and the clock goes on.
C40_VoiceThenSilenceSucceeds ==
    \A r \in Runs, i \in 0..(NumSentences - 1), k \in 1..MaxFrames :
        (VoiceSignalled(r, k) /\ current_sentence_index[r] = i)
            ~> \/ current_sentence_index[r] = i + 1
               \/ state[r] # "Recording"
               \/ VoiceAfter(r, k)

\* C40 witness: a session of one voice frame that sent the signal and one
\* silence frame after it; record_sentence is returning Ok with the state
\* still Recording.
C40_Witness ==
    /\ state[1] = "Recording"
    /\ worker[1].pc = "drop_stream"
    /\ worker[1].result = "Ok"
    /\ Len(session[1].audio_chunks) = 2
    /\ session[1].audio_chunks[1].is_voice
    /\ ~session[1].audio_chunks[2].is_voice

=============================================================================
